---- MODULE Spec2Model ----
(***************************************************************************)
(* Model of the study-material collation program: the text cleaner, the    *)
(* line classifier, the per-format section builders of DocumentProcessor   *)
(* (document_processor.py) and the session state kept by MainWindow        *)
(* (mainwindow.py).                                                        *)
(*                                                                         *)
(* Text is a sequence of characters; a character is a one-element string.  *)
(* An ASCII character stands for itself; a non-ASCII character is written  *)
(* by its code point, "uXXXX" (for instance "u5F15","u8A00" is the word    *)
(* yin-yan, "introduction").                                               *)
(***************************************************************************)
EXTENDS Integers, Sequences, FiniteSets, TLC

\* ------------------------------------------------------------------ text

Digits == {"0", "1", "2", "3", "4", "5", "6", "7", "8", "9"}

\* What str.strip() removes and the regular expression class \s matches.
Whitespace == {" ", "\t", "\n"}

\* The characters of the model's alphabet that the class \w does not match:
\* whitespace, ASCII punctuation and the full-width punctuation marks
\* (u3001 ideographic comma, u3002 ideographic full stop, uFF0C full-width
\* comma, uFF0E full-width full stop, uFF1A full-width colon).
NonWord == Whitespace \cup {".", ":", ",", "u3001", "u3002", "uFF0C", "uFF0E", "uFF1A"}

IsDigit(c) == c \in Digits
IsSpace(c) == c \in Whitespace
IsWordChar(c) == c \notin NonWord
IsDotColon(c) == c \in {".", ":"}

\* str.lower() (and case-insensitive matching) on the letters of the model's
\* alphabet: those of the page-label pattern and of the file extensions.
Lower(c) ==
    CASE c = "P" -> "p"
      [] c = "A" -> "a"
      [] c = "G" -> "g"
      [] c = "E" -> "e"
      [] c = "I" -> "i"
      [] c = "N" -> "n"
      [] c = "D" -> "d"
      [] c = "F" -> "f"
      [] c = "O" -> "o"
      [] c = "C" -> "c"
      [] c = "X" -> "x"
      [] c = "T" -> "t"
      [] OTHER -> c

\* The end (exclusive) of the longest run of characters of class cls that
\* starts at position i of s: what a greedy  X*  consumes.
RunEnd(s, i, cls) ==
    CHOOSE j \in i..(Len(s) + 1) :
        /\ \A k \in i..(j - 1) :
              CASE cls = "space" -> IsSpace(s[k])
                [] cls = "digit" -> IsDigit(s[k])
                [] cls = "dotcolon" -> IsDotColon(s[k])
        /\ \/ j = Len(s) + 1
           \/ CASE cls = "space" -> ~IsSpace(s[j])
                [] cls = "digit" -> ~IsDigit(s[j])
                [] cls = "dotcolon" -> ~IsDotColon(s[j])

\* w occurs in s at position i (str.startswith at an offset).
StartsAt(s, i, w) ==
    /\ i + Len(w) - 1 <= Len(s)
    /\ \A k \in 1..Len(w) : s[i + k - 1] = w[k]

StartsAtIgnoreCase(s, i, w) ==
    /\ i + Len(w) - 1 <= Len(s)
    /\ \A k \in 1..Len(w) : Lower(s[i + k - 1]) = w[k]

\* w in s
Contains(s, w) == \E i \in 1..(Len(s) + 1) : StartsAt(s, i, w)

\* The regular expression assertion \b at position i (between i-1 and i).
WordBoundary(s, i) ==
    LET before == i > 1 /\ IsWordChar(s[i - 1])
        after == i <= Len(s) /\ IsWordChar(s[i])
    IN  before # after

\* str.strip()
Strip(s) ==
    IF \A k \in 1..Len(s) : IsSpace(s[k]) THEN <<>>
    ELSE LET a == CHOOSE i \in 1..Len(s) :
                      ~IsSpace(s[i]) /\ \A k \in 1..(i - 1) : IsSpace(s[k])
             b == CHOOSE j \in 1..Len(s) :
                      ~IsSpace(s[j]) /\ \A k \in (j + 1)..Len(s) : IsSpace(s[k])
         IN  SubSeq(s, a, b)

\* The element of a set of one element. {F(t) : t \in {e}} holds F(e), with
\* e evaluated once, however often F refers to its argument.
The(S) == CHOOSE x \in S : TRUE

\* str.split('\n'): the pieces between the newline characters.
RECURSIVE Split(_)
Split(s) ==
    IF \A k \in 1..Len(s) : s[k] # "\n" THEN <<s>>
    ELSE LET n == CHOOSE i \in 1..Len(s) :
                      s[i] = "\n" /\ \A k \in 1..(i - 1) : s[k] # "\n"
         IN  <<SubSeq(s, 1, n - 1)>>
                 \o The({Split(rest) : rest \in {SubSeq(s, n + 1, Len(s))}})

\* sep.join(parts)
RECURSIVE Join(_, _)
Join(parts, sep) ==
    IF parts = <<>> THEN <<>>
    ELSE IF Len(parts) = 1 THEN parts[1]
    ELSE parts[1] \o sep \o Join(Tail(parts), sep)

\* A value that is a str, as opposed to None or a list.
Str(s) == [str |-> s]

\* A value that is a list.
List(items) == [list |-> items]

\* isinstance(v, list), for v a str or a list
IsList(v) == DOMAIN v = {"list"}

\* str.split(sep) for a separator of one or more characters.
RECURSIVE SplitOn(_, _)
SplitOn(s, sep) ==
    IF ~Contains(s, sep) THEN <<s>>
    ELSE LET n == CHOOSE i \in 1..Len(s) :
                      StartsAt(s, i, sep) /\ \A k \in 1..(i - 1) : ~StartsAt(s, k, sep)
         IN  <<SubSeq(s, 1, n - 1)>>
                 \o SplitOn(SubSeq(s, n + Len(sep), Len(s)), sep)

\* --------------------------------------------------------- content cleaner

\* The words of the page-label pattern, in the order of its alternation.
PageWords == << <<"p", "a", "g", "e">>, <<"p">>, <<"p", "g">>, <<"p", "a", "g">>,
               <<"p", "a", "g", "i", "n", "a">> >>

\* The end (exclusive) of the match of a pattern of clean_content at position
\* i of s, or 0 when the pattern does not match there.
\*   "digits"  ^\s*\d+\s*$   (MULTILINE)
\*   "pnum"    \bP\d+\b
\*   "label"   (?i)\b(?:page|p|pg|pag|pagina)\s*[\.:]*\s*\d+\b
\*   "blank"   \n\s*\n
MatchEnd(pat, s, i) ==
    CASE pat = "digits" ->
            IF ~(i = 1 \/ s[i - 1] = "\n") THEN 0
            ELSE LET a == RunEnd(s, i, "space")
                     b == RunEnd(s, a, "digit")
                     c == RunEnd(s, b, "space")
                     ends == {e \in b..c : e = Len(s) + 1 \/ s[e] = "\n"}
                 IN  IF b = a \/ ends = {} THEN 0
                     ELSE CHOOSE e \in ends : \A x \in ends : x <= e
      [] pat = "pnum" ->
            IF ~(s[i] = "P" /\ WordBoundary(s, i)) THEN 0
            ELSE LET b == RunEnd(s, i + 1, "digit")
                 IN  IF b > i + 1 /\ WordBoundary(s, b) THEN b ELSE 0
      [] pat = "label" ->
            IF ~WordBoundary(s, i) THEN 0
            ELSE LET tail(j) ==
                         LET a == RunEnd(s, j, "space")
                             b == RunEnd(s, a, "dotcolon")
                             c == RunEnd(s, b, "space")
                             d == RunEnd(s, c, "digit")
                         IN  IF d > c /\ WordBoundary(s, d) THEN d ELSE 0
                     hits == {n \in 1..Len(PageWords) :
                                 /\ StartsAtIgnoreCase(s, i, PageWords[n])
                                 /\ tail(i + Len(PageWords[n])) # 0}
                 IN  IF hits = {} THEN 0
                     ELSE LET n == CHOOSE x \in hits : \A y \in hits : x <= y
                          IN  tail(i + Len(PageWords[n]))
      [] pat = "blank" ->
            IF s[i] # "\n" THEN 0
            ELSE LET c == RunEnd(s, i + 1, "space")
                     nls == {e \in (i + 1)..(c - 1) : s[e] = "\n"}
                 IN  IF nls = {} THEN 0
                     ELSE (CHOOSE e \in nls : \A x \in nls : x <= e) + 1

\* re.sub(pattern, repl, s) from position i on: leftmost matches, left to
\* right, none overlapping (no pattern of clean_content matches the empty
\* string).
RECURSIVE SubFrom(_, _, _, _)
SubFrom(pat, repl, s, i) ==
    IF i > Len(s) THEN <<>>
    ELSE LET e == MatchEnd(pat, s, i)
         IN  IF e = 0 THEN <<s[i]>> \o SubFrom(pat, repl, s, i + 1)
             ELSE repl \o SubFrom(pat, repl, s, e)

\* The four substitutions of clean_content, in the order it applies them.
Substitutions ==
    << [pat |-> "digits", repl |-> <<>>],
       [pat |-> "pnum", repl |-> <<>>],
       [pat |-> "label", repl |-> <<>>],
       [pat |-> "blank", repl |-> <<"\n">>] >>

\* `text = re.sub(...)` for each substitution of subs in turn.
RECURSIVE Substituted(_, _)
Substituted(text, subs) ==
    IF subs = <<>> THEN text
    ELSE The({Substituted(t, Tail(subs)) :
                 t \in {SubFrom(Head(subs).pat, Head(subs).repl, text, 1)}})

\* DocumentProcessor.clean_content; None and "" are both the empty text.
clean_content(text) ==
    IF text = <<>> THEN <<>>
    ELSE The({Strip(t) : t \in {Substituted(text, Substitutions)}})

\* ---------------------------------------------------------- line classifier

heading_keywords ==
    { <<"u76EE", "u5F55">>, <<"u7AE0", "u8282">>, <<"u8282">>, <<"u7B2C">>,
      <<"u6458", "u8981">>, <<"u5F15", "u8A00">>, <<"u7ED3", "u8BBA">>,
      <<"u53C2", "u8003">>, <<"u6982", "u8FF0">>, <<"u603B", "u7ED3">>,
      <<"u8981", "u70B9">>, <<"u91CD", "u70B9">> }

non_concept_keywords ==
    { <<"u4F8B">>, <<"u4F8B", "u5B50">>, <<"u793A", "u4F8B">>, <<"u4F8B", "u9898">>,
      <<"u4E60", "u9898">>, <<"u7EC3", "u4E60">>, <<"u4F5C", "u4E1A">>,
      <<"u8BFE", "u540E", "u7EC3", "u4E60">>, <<"u601D", "u8003", "u9898">>,
      <<"u5B9E", "u9A8C">>, <<"u5B9E", "u8BAD">> }

\* The key-point words that exempt a numbered line (zhong-dian, yao-dian).
KeyPoint1 == <<"u91CD", "u70B9">>
KeyPoint2 == <<"u8981", "u70B9">>

HeadingKeywordLen == 50
HeadingNumberLen == 30

\* re.match(r"^[0-9]+[<u3001>. ]", text)
NumberedHeading(text) ==
    LET b == RunEnd(text, 1, "digit")
    IN  b > 1 /\ b <= Len(text) /\ text[b] \in {"u3001", ".", " "}

\* A variant of NumberedItem that matches no text.
NumberedItemNever(text) == FALSE

\* re.match(r"^\d+\.\s", text)
NumberedItem(text) ==
    LET b == RunEnd(text, 1, "digit")
    IN  b > 1 /\ b + 1 <= Len(text) /\ text[b] = "." /\ IsSpace(text[b + 1])

\* A variant of is_heading that tests the keywords at any length.
HeadingAtAnyLength(text) ==
    \/ \E kw \in heading_keywords : Contains(text, kw)
    \/ Len(text) < HeadingNumberLen /\ NumberedHeading(text)

\* DocumentProcessor.is_heading
is_heading(text) ==
    \/ Len(text) < HeadingKeywordLen /\ \E kw \in heading_keywords : Contains(text, kw)
    \/ Len(text) < HeadingNumberLen /\ NumberedHeading(text)

\* A variant of is_concept_content that rejects nothing.
EverythingIsConcept(text) == TRUE

\* A variant of is_concept_content without the key-point exemption of
\* numbered lines.
ConceptWithoutKeyPoints(text) ==
    IF \E kw \in non_concept_keywords : StartsAt(Strip(text), 1, kw) THEN FALSE
    ELSE IF (\E kw \in non_concept_keywords : Contains(text, kw)) /\ ~is_heading(text)
         THEN FALSE
    ELSE ~NumberedItem(Strip(text))

\* DocumentProcessor.is_concept_content
is_concept_content(text) ==
    IF \E kw \in non_concept_keywords : StartsAt(Strip(text), 1, kw) THEN FALSE
    ELSE IF (\E kw \in non_concept_keywords : Contains(text, kw)) /\ ~is_heading(text)
         THEN FALSE
    ELSE IF /\ NumberedItem(Strip(text))
            /\ ~Contains(text, KeyPoint1)
            /\ ~Contains(text, KeyPoint2)
         THEN FALSE
    ELSE TRUE

\* ------------------------------------------------------- section builders

\* Python's None; also the absent current_section.
None == [none |-> TRUE]

\* str(n) for a natural number.
RECURSIVE DecimalStr(_)
DecimalStr(n) ==
    LET d == <<"0", "1", "2", "3", "4", "5", "6", "7", "8", "9">>
    IN  IF n < 10 THEN <<d[n + 1]>> ELSE DecimalStr(n \div 10) \o <<d[(n % 10) + 1]>>

\* "jie-xi cuo-wu" (parse error): the title of the section opened by a failed page.
ParseErrorTitle == <<"u89E3", "u6790", "u9519", "u8BEF">>

\* f"di {page_num + 1} ye jie-xi shi-bai" (page N failed to parse); page_num
\* counts from 0.
PageFailedLine(page_num) ==
    <<"u7B2C", " ">> \o DecimalStr(page_num + 1)
        \o <<" ", "u9875", "u89E3", "u6790", "u5931", "u8D25">>

\* f"huan-deng-pian {i + 1}" (slide N); i counts from 0.
DefaultSlideTitle(i) == <<"u5E7B", "u706F", "u7247", " ">> \o DecimalStr(i + 1)

\* The builder's state between two lines: content['sections'],
\* current_section and skip_section.
BuilderState(sections, current_section, skip_section) ==
    [sections |-> sections, current_section |-> current_section,
     skip_section |-> skip_section]

\* A variant of AppendIfContent that tests only that a section is open.
AppendIfOpen(sections, current_section) ==
    IF current_section # None THEN Append(sections, current_section) ELSE sections

\* `if current_section and current_section['content']:
\*      content['sections'].append(current_section)`
AppendIfContent(sections, current_section) ==
    IF current_section # None /\ current_section.content # <<>>
    THEN Append(sections, current_section)
    ELSE sections

\* A variant of PdfStrippedLine that appends a plain line to the open section
\* without asking is_concept_content.
PdfStrippedLineUnfiltered(st, stripped_line, heading, concept) ==
    IF stripped_line = <<>> THEN st
    ELSE IF heading /\ ~concept
    THEN BuilderState(st.sections, None, TRUE)
    ELSE IF st.skip_section /\ ~(heading /\ concept)
    THEN st
    ELSE IF st.current_section = None \/ heading
    THEN BuilderState(
             AppendIfContent(st.sections, st.current_section),
             IF concept THEN [title |-> stripped_line, content |-> <<>>] ELSE None,
             FALSE)
    ELSE BuilderState(
             st.sections,
             [st.current_section EXCEPT !.content = Append(@, stripped_line)],
             FALSE)

\* A variant of PdfStrippedLine in which a heading that arrives while the open
\* section holds no content leaves that section open under its first title.
PdfStrippedLineKeepingFirst(st, stripped_line, heading, concept) ==
    IF stripped_line = <<>> THEN st
    ELSE IF heading /\ ~concept
    THEN BuilderState(st.sections, None, TRUE)
    ELSE IF st.skip_section /\ ~(heading /\ concept)
    THEN st
    ELSE IF st.current_section = None
            \/ (heading /\ st.current_section.content # <<>>)
    THEN BuilderState(
             AppendIfContent(st.sections, st.current_section),
             IF concept THEN [title |-> stripped_line, content |-> <<>>] ELSE None,
             FALSE)
    ELSE BuilderState(
             st.sections,
             IF concept /\ ~heading
             THEN [st.current_section EXCEPT !.content = Append(@, stripped_line)]
             ELSE st.current_section,
             FALSE)

\* A variant of PdfStrippedLine that opens a section with its title as first
\* content line, as the word-processor builder does.
PdfStrippedLineTitleAsContent(st, stripped_line, heading, concept) ==
    IF stripped_line = <<>> THEN st
    ELSE IF heading /\ ~concept
    THEN BuilderState(st.sections, None, TRUE)
    ELSE IF st.skip_section /\ ~(heading /\ concept)
    THEN st
    ELSE IF st.current_section = None \/ heading
    THEN BuilderState(
             AppendIfContent(st.sections, st.current_section),
             IF concept THEN [title |-> stripped_line, content |-> <<stripped_line>>]
             ELSE None,
             FALSE)
    ELSE BuilderState(
             st.sections,
             IF concept
             THEN [st.current_section EXCEPT !.content = Append(@, stripped_line)]
             ELSE st.current_section,
             FALSE)

\* The body of `for line in lines:` of the page-description builders for a
\* stripped line, given what is_heading and is_concept_content answer for it:
\* from the builder state st to the builder state after the line.
PdfStrippedLine(st, stripped_line, heading, concept) ==
    IF stripped_line = <<>> THEN st
    ELSE IF heading /\ ~concept
    THEN BuilderState(st.sections, None, TRUE)
    ELSE IF st.skip_section /\ ~(heading /\ concept)
    THEN st
    ELSE IF st.current_section = None \/ heading
    THEN BuilderState(
             AppendIfContent(st.sections, st.current_section),
             IF concept THEN [title |-> stripped_line, content |-> <<>>] ELSE None,
             FALSE)
    ELSE BuilderState(
             st.sections,
             IF concept
             THEN [st.current_section EXCEPT !.content = Append(@, stripped_line)]
             ELSE st.current_section,
             FALSE)

\* The body of `for line in lines:` of extract_with_pymupdf, one line.
PdfLine(st, line) ==
    PdfStrippedLine(st, Strip(line), is_heading(Strip(line)),
                    is_concept_content(Strip(line)))

\* The same loop body in extract_with_pdfplumber (a copy of the one above).
PlumberLine(st, line) == PdfLine(st, line)

RECURSIVE PdfLines(_, _)
PdfLines(st, lines) ==
    IF lines = <<>> THEN st ELSE PdfLines(PdfLine(st, Head(lines)), Tail(lines))

RECURSIVE PlumberLines(_, _)
PlumberLines(st, lines) ==
    IF lines = <<>> THEN st ELSE PlumberLines(PlumberLine(st, Head(lines)), Tail(lines))

\* A page of a page-description file as the two readers see it:
\*   text     what text extraction yields when it succeeds
\*   fitz     "ok" | "raise"      page.get_text of the primary reader
\*   plumber  "ok" | "color" (extract_text raises a color-space error and
\*            extract_text_simple succeeds) | "color_fail" (and
\*            extract_text_simple raises too) | "other" (another error)
Page(text, fitz, plumber) == [text |-> text, fitz |-> fitz, plumber |-> plumber]

\* `lines = cleaned_text.split('\n')` after `clean_content(text)`.
PageLines(text) == The({Split(t) : t \in {clean_content(text)}})

\* A variant of PageFailed that opens a parse-error section whether or not a
\* section is open.
PageFailedOpensAnew(st, page_num) ==
    BuilderState(st.sections,
                 [title |-> ParseErrorTitle, content |-> <<PageFailedLine(page_num)>>],
                 st.skip_section)

\* A variant of PageFailed that leaves the builder as it was, as a page the
\* secondary reader cannot read does.
PageFailedSilently(st, page_num) == st

\* The `except` branch of a page of extract_with_pymupdf: the failure line
\* goes to the open section, or to a new section titled ParseErrorTitle.
PageFailed(st, page_num) ==
    BuilderState(st.sections,
                 IF st.current_section = None
                 THEN [title |-> ParseErrorTitle,
                       content |-> <<PageFailedLine(page_num)>>]
                 ELSE [st.current_section EXCEPT
                          !.content = Append(@, PageFailedLine(page_num))],
                 st.skip_section)

\* One iteration of `for page_num in range(len(doc))` of extract_with_pymupdf.
PymupdfPage(st, page, page_num) ==
    IF page.fitz = "raise" THEN PageFailed(st, page_num)
    ELSE IF page.text = <<>> THEN st
    ELSE PdfLines(BuilderState(st.sections, st.current_section, FALSE),
                  PageLines(page.text))

\* A variant of PlumberText that tries the simplified extraction after any
\* error of extract_text.
PlumberTextSimpleAlways(page) ==
    CASE page.plumber = "ok" -> page.text
      [] page.plumber = "color" -> page.text
      [] page.plumber = "color_fail" -> <<>>
      [] OTHER -> page.text

\* The text extract_with_pdfplumber obtains for a page.
PlumberText(page) ==
    CASE page.plumber = "ok" -> page.text
      [] page.plumber = "color" -> page.text
      [] page.plumber = "color_fail" -> <<>>
      [] OTHER -> <<>>

\* One iteration of `for i, page in enumerate(pdf.pages)` of
\* extract_with_pdfplumber.
PlumberPage(st, page) ==
    IF PlumberText(page) = <<>> THEN st
    ELSE PlumberLines(BuilderState(st.sections, st.current_section, FALSE),
                      PageLines(PlumberText(page)))

RECURSIVE PymupdfPages(_, _, _)
PymupdfPages(st, pages, page_num) ==
    IF page_num >= Len(pages) THEN st
    ELSE PymupdfPages(PymupdfPage(st, pages[page_num + 1], page_num), pages, page_num + 1)

RECURSIVE PlumberPages(_, _, _)
PlumberPages(st, pages, i) ==
    IF i >= Len(pages) THEN st
    ELSE PlumberPages(PlumberPage(st, pages[i + 1]), pages, i + 1)

\* The content dictionary a builder returns.
Content(pages, author, sections) ==
    [metadata |-> [filled |-> TRUE, pages |-> pages, author |-> author],
     sections |-> sections]

\* content['metadata'] of the word-processor and slide-deck builders: the
\* dictionary stays empty.
EmptyMetadata == [filled |-> FALSE, pages |-> 0, author |-> ""]

\* The end of both page-description builders: the last section is added if
\* it has content, and the content dictionary is returned.
PdfReturn(pages, author, st) ==
    Content(pages, author, AppendIfContent(st.sections, st.current_section))

\* DocumentProcessor.extract_with_pymupdf: None when fitz.open raises.
extract_with_pymupdf(f) ==
    IF ~f.fitz_open THEN None
    ELSE PdfReturn(Len(f.pages), f.author,
                   PymupdfPages(BuilderState(<<>>, None, FALSE), f.pages, 0))

\* DocumentProcessor.extract_with_pdfplumber: when pdfplumber.open raises,
\* whatever extract_with_pymupdf returns.
extract_with_pdfplumber(f) ==
    IF ~f.plumber_open THEN extract_with_pymupdf(f)
    ELSE PdfReturn(Len(f.pages), f.author,
                   PlumberPages(BuilderState(<<>>, None, FALSE), f.pages, 0))

\* A variant of PrimaryUsable that tests only that the primary returned.
PrimaryReturned(result) == result # None

\* `if result and result.get('sections') and result['sections'][0].get('content')`
PrimaryUsable(result) ==
    /\ result # None
    /\ result.sections # <<>>
    /\ result.sections[1].content # <<>>

\* The rest of extract_pdf_content, given the primary reader's result.
PrimaryOrSecondary(result, f) ==
    IF PrimaryUsable(result) THEN result ELSE extract_with_pdfplumber(f)

\* DocumentProcessor.extract_pdf_content
extract_pdf_content(f) == PrimaryOrSecondary(extract_with_pymupdf(f), f)

\* The state of the word-processor and slide-deck builders between two
\* units: content['sections'] and current_section (they have no skip latch).
PlainState(sections, current_section) ==
    [sections |-> sections, current_section |-> current_section]

\* The prefix of a paragraph style name that marks a heading.
HeadingStyle == <<"H", "e", "a", "d", "i", "n", "g">>

\* A paragraph of a word-processor file: para.text and para.style.name.
Para(text, style) == [text |-> text, style |-> style]

\* The body of `for para in doc.paragraphs:` of extract_docx_content for the
\* stripped text of a paragraph, given whether it counts as a heading (by
\* its style or by is_heading) and what is_concept_content answers for it.
DocxText(st, text, heading, concept) ==
    IF text = <<>> THEN st
    ELSE IF heading
    THEN IF ~concept
         THEN PlainState(st.sections, None)
         ELSE PlainState(AppendIfContent(st.sections, st.current_section),
                         [title |-> text, content |-> <<text>>])
    ELSE IF st.current_section # None /\ concept
    THEN PlainState(st.sections,
                    [st.current_section EXCEPT !.content = Append(@, text)])
    ELSE st

\* A variant of DocxPara that takes a paragraph for a heading by its text
\* only.
DocxParaByText(st, para) ==
    DocxText(st, Strip(para.text), is_heading(Strip(para.text)),
             is_concept_content(Strip(para.text)))

\* The body of `for para in doc.paragraphs:` of extract_docx_content.
DocxPara(st, para) ==
    DocxText(st, Strip(para.text),
             StartsAt(para.style, 1, HeadingStyle) \/ is_heading(Strip(para.text)),
             is_concept_content(Strip(para.text)))

RECURSIVE DocxParas(_, _)
DocxParas(st, paras) ==
    IF paras = <<>> THEN st ELSE DocxParas(DocxPara(st, Head(paras)), Tail(paras))

\* The end of the word-processor builder and of the slide-deck builder's
\* structural pass: the last section is added if it has content.
LastAdded(st) == AppendIfContent(st.sections, st.current_section)

\* DocumentProcessor.extract_docx_content: the metadata stays empty.
extract_docx_content(f) ==
    [metadata |-> EmptyMetadata,
     sections |-> LastAdded(DocxParas(PlainState(<<>>, None), f.paras))]

\* A slide: whether it has a title shape (slide.shapes.title is not None),
\* that shape's text, and the texts of its other shapes, in shape order.
Slide(has_title, title, shapes) ==
    [has_title |-> has_title, title |-> title, shapes |-> shapes]

\* A variant of PptxText that adds the open section to the sections when a
\* rejected heading closes it.
PptxTextEmitting(st, text, heading, concept) ==
    IF text = <<>> THEN st
    ELSE IF heading
    THEN IF ~concept
         THEN PlainState(AppendIfContent(st.sections, st.current_section), None)
         ELSE PlainState(AppendIfContent(st.sections, st.current_section),
                         [title |-> text, content |-> <<>>])
    ELSE IF concept /\ st.current_section # None
    THEN PlainState(st.sections,
                    [st.current_section EXCEPT !.content = Append(@, text)])
    ELSE st

\* The body of `for shape in slide.shapes:` of the structural pass of
\* extract_pptx_content, for a shape that has text and is not the title shape.
PptxText(st, text, heading, concept) ==
    IF text = <<>> THEN st
    ELSE IF heading
    THEN IF ~concept
         THEN PlainState(st.sections, None)
         ELSE PlainState(AppendIfContent(st.sections, st.current_section),
                         [title |-> text, content |-> <<>>])
    ELSE IF concept /\ st.current_section # None
    THEN PlainState(st.sections,
                    [st.current_section EXCEPT !.content = Append(@, text)])
    ELSE st

PptxShape(st, shape_text) ==
    PptxText(st, Strip(shape_text), is_heading(Strip(shape_text)),
             is_concept_content(Strip(shape_text)))

RECURSIVE PptxShapes(_, _)
PptxShapes(st, shapes) ==
    IF shapes = <<>> THEN st ELSE PptxShapes(PptxShape(st, Head(shapes)), Tail(shapes))

\* A variant of PptxSlides in which no section stays open from one slide to
\* the next: the open section is added, if it has content, when a slide ends.
RECURSIVE PptxSlidesApart(_, _)
PptxSlidesApart(st, slides) ==
    IF slides = <<>> THEN st
    ELSE PptxSlidesApart(
             PlainState(LastAdded(PptxShapes(st, Head(slides).shapes)), None),
             Tail(slides))

\* The structural pass over the slides: slide_title and slide_content are
\* computed per slide and not used by this pass.
RECURSIVE PptxSlides(_, _)
PptxSlides(st, slides) ==
    IF slides = <<>> THEN st
    ELSE PptxSlides(PptxShapes(st, Head(slides).shapes), Tail(slides))

\* A variant of SlideTitle that takes the title shape's text as it is.
SlideTitleAsIs(slide, i) ==
    IF slide.has_title THEN slide.title ELSE DefaultSlideTitle(i)

\* slide_title of slide i (from 0): the stripped title text, or the default.
SlideTitle(slide, i) ==
    IF slide.has_title /\ Strip(slide.title) # <<>>
    THEN Strip(slide.title)
    ELSE DefaultSlideTitle(i)

\* slide_content of the fallback pass: the stripped non-empty shape texts
\* that are concept content.
RECURSIVE SlideContent(_)
SlideContent(shapes) ==
    IF shapes = <<>> THEN <<>>
    ELSE (IF Strip(Head(shapes)) # <<>> /\ is_concept_content(Strip(Head(shapes)))
          THEN <<Strip(Head(shapes))>>
          ELSE <<>>)
             \o SlideContent(Tail(shapes))

\* The fallback pass from slide i (from 0) on: one section per slide that has
\* content.
\* `if slide_content: content['sections'].append({...})`
AppendSlide(sections, slide_title, slide_content) ==
    IF slide_content # <<>>
    THEN Append(sections, [title |-> slide_title, content |-> slide_content])
    ELSE sections

RECURSIVE PptxFallback(_, _, _)
PptxFallback(sections, slides, i) ==
    IF i >= Len(slides) THEN sections
    ELSE PptxFallback(AppendSlide(sections, SlideTitle(slides[i + 1], i),
                                  SlideContent(slides[i + 1].shapes)),
                      slides, i + 1)

\* A variant of StructuralOrFallback that runs the fallback pass after every
\* structural pass.
StructuralAndFallback(sections, slides) == PptxFallback(sections, slides, 0)

\* `if not content['sections']:` the fallback pass, else the structural
\* pass's sections.
StructuralOrFallback(sections, slides) ==
    IF sections = <<>> THEN PptxFallback(<<>>, slides, 0) ELSE sections

\* DocumentProcessor.extract_pptx_content
extract_pptx_content(f) ==
    [metadata |-> EmptyMetadata,
     sections |-> StructuralOrFallback(
                      LastAdded(PptxSlides(PlainState(<<>>, None), f.slides)),
                      f.slides)]

\* DocumentProcessor.generate_knowledge_tree
RECURSIVE SectionNodes(_)
SectionNodes(sections) ==
    IF sections = <<>> THEN <<>>
    ELSE << [title |-> Head(sections).title,
             content |-> Str(Join(Head(sections).content, <<"\n">>)),
             children |-> <<>>] >> \o SectionNodes(Tail(sections))

\* A variant of generate_knowledge_tree that keeps, of the sections with the
\* same title, only the first.
RECURSIVE FirstOfEachTitle(_, _)
FirstOfEachTitle(nodes, seen) ==
    IF nodes = <<>> THEN <<>>
    ELSE IF Head(nodes).title \in seen THEN FirstOfEachTitle(Tail(nodes), seen)
    ELSE <<Head(nodes)>>
             \o FirstOfEachTitle(Tail(nodes), seen \cup {Head(nodes).title})

RECURSIVE AllSectionNodes(_)
AllSectionNodes(documents) ==
    IF documents = <<>> THEN <<>>
    ELSE SectionNodes(Head(documents).sections) \o AllSectionNodes(Tail(documents))

TreeOfDistinctTitles(documents) == FirstOfEachTitle(AllSectionNodes(documents), {})

RECURSIVE generate_knowledge_tree(_)
generate_knowledge_tree(documents) ==
    IF documents = <<>> THEN <<>>
    ELSE SectionNodes(Head(documents).sections)
             \o generate_knowledge_tree(Tail(documents))

\* ------------------------------------------------------------ summary pass

\* The mark that starts a section in the text exchanged with the summary pass.
SectionMark == <<"#", "#">>

\* f"## {node['title']}\n" followed by the node's content: the lines joined
\* with a newline when the content is a list, the content itself otherwise.
SectionText(node) ==
    SectionMark \o <<" ">> \o node.title \o <<"\n">>
        \o (IF IsList(node.content) THEN Join(node.content.list, <<"\n">>)
            ELSE node.content.str)

RECURSIVE ContentParts(_)
ContentParts(knowledge_tree) ==
    IF knowledge_tree = <<>> THEN <<>>
    ELSE <<SectionText(Head(knowledge_tree))>> \o ContentParts(Tail(knowledge_tree))

\* AIProcessor.prepare_content_for_ai
prepare_content_for_ai(knowledge_tree) ==
    Join(ContentParts(knowledge_tree), <<"\n", "\n">>)

\* The characters of [.<u3002>!?<uFF01><uFF1F>;<uFF1B>] that end a sentence.
SentenceEnds == {".", "u3002", "!", "?", "uFF01", "uFF1F", ";", "uFF1B"}

\* re.split(r'[...]', full_content)
RECURSIVE SplitSentences(_)
SplitSentences(s) ==
    IF \A k \in 1..Len(s) : s[k] \notin SentenceEnds THEN <<s>>
    ELSE LET n == CHOOSE i \in 1..Len(s) :
                      s[i] \in SentenceEnds
                          /\ \A k \in 1..(i - 1) : s[k] \notin SentenceEnds
         IN  <<SubSeq(s, 1, n - 1)>> \o SplitSentences(SubSeq(s, n + 1, Len(s)))

important_words ==
    { <<"u91CD", "u8981">>, <<"u5173", "u952E">>, <<"u6838", "u5FC3">>,
      <<"u4E3B", "u8981">>, <<"u9996", "u5148">>, <<"u5176", "u6B21">>,
      <<"u6700", "u540E">>, <<"u603B", "u4E4B">>, <<"u56E0", "u6B64">>,
      <<"u6240", "u4EE5">>, <<"u7279", "u70B9">>, <<"u4F18", "u52BF">>,
      <<"u5B9A", "u4E49">>, <<"u6982", "u5FF5">> }

\* The redundant phrases  open.*?close  that _simplify_sentence removes.
redundant_patterns ==
    << [open |-> <<"u5728", "u8FD9", "u4E2A">>, close |-> <<"u4E2D">>],
       [open |-> <<"u901A", "u8FC7">>, close |-> <<"u53EF", "u4EE5", "u53D1", "u73B0">>],
       [open |-> <<"u4ECE">>, close |-> <<"u53EF", "u4EE5", "u770B", "u51FA">>],
       [open |-> <<"u6839", "u636E">>, close |-> <<"u5F97", "u77E5">>],
       [open |-> <<"u7531", "u4E8E">>, close |-> <<"u6240", "u4EE5">>] >>

\* re.sub(r'\s+', ' ', sentence)
RECURSIVE CollapseSpace(_)
CollapseSpace(s) ==
    IF s = <<>> THEN <<>>
    ELSE IF IsSpace(s[1])
         THEN <<" ">> \o CollapseSpace(SubSeq(s, RunEnd(s, 1, "space"), Len(s)))
         ELSE <<s[1]>> \o CollapseSpace(Tail(s))

\* The first position from i on where w occurs in s, 0 when there is none.
Find(s, i, w) ==
    IF \E k \in i..Len(s) : StartsAt(s, k, w)
    THEN CHOOSE k \in i..Len(s) :
             StartsAt(s, k, w) /\ \A j \in i..(k - 1) : ~StartsAt(s, j, w)
    ELSE 0

\* The rest of re.sub for a match that opens at i and closes at j (0: none).
RECURSIVE RemoveSpans(_, _)
SpanRemoved(s, pattern, i, j) ==
    IF i = 0 \/ j = 0 THEN s
    ELSE SubSeq(s, 1, i - 1)
             \o RemoveSpans(SubSeq(s, j + Len(pattern.close), Len(s)), pattern)

\* The close of the match that opens at i (0: no open, so no match).
SpanFrom(s, pattern, i) ==
    SpanRemoved(s, pattern, i,
                IF i = 0 THEN 0 ELSE Find(s, i + Len(pattern.open), pattern.close))

\* re.sub(open.*?close, '', s): every leftmost shortest match is removed.
RemoveSpans(s, pattern) == SpanFrom(s, pattern, Find(s, 1, pattern.open))

RECURSIVE RemoveAllSpans(_, _)
RemoveAllSpans(s, patterns) ==
    IF patterns = <<>> THEN s
    ELSE RemoveAllSpans(RemoveSpans(s, Head(patterns)), Tail(patterns))

\* AIProcessor._simplify_sentence
simplify_sentence(sentence) ==
    Strip(RemoveAllSpans(Strip(CollapseSpace(sentence)), redundant_patterns))

\* A key point is longer than this.
MinPointLen == 10
\* Without a sentence that holds an important word, this many of the first
\* sentences are looked at.
FirstSentences == 3
\* The number of key points returned at most.
MaxPoints == 5

\* The points of the first loop: the sentences with an important word,
\* simplified, when long enough.
RECURSIVE ImportantPoints(_)
ImportantPoint(sentence, simplified) ==
    IF /\ sentence # <<>>
       /\ \E word \in important_words : Contains(sentence, word)
       /\ Len(simplified) > MinPointLen
    THEN <<simplified>> ELSE <<>>

ImportantPoints(sentences) ==
    IF sentences = <<>> THEN <<>>
    ELSE ImportantPoint(Strip(Head(sentences)),
                        simplify_sentence(Strip(Head(sentences))))
             \o ImportantPoints(Tail(sentences))

\* The points of the second loop: the long enough sentences, simplified.
RECURSIVE LeadingPoints(_)
LeadingPoint(sentence, simplified) ==
    IF Len(sentence) > MinPointLen /\ simplified # <<>>
    THEN <<simplified>> ELSE <<>>

LeadingPoints(sentences) ==
    IF sentences = <<>> THEN <<>>
    ELSE LeadingPoint(Strip(Head(sentences)),
                      simplify_sentence(Strip(Head(sentences))))
             \o LeadingPoints(Tail(sentences))

\* The first n elements of a list: list[:n]
FirstOf(list, n) == SubSeq(list, 1, IF Len(list) < n THEN Len(list) ELSE n)

\* The end of _extract_key_points, given the sentences and the points of the
\* first loop.
KeyPoints(sentences, key_points) ==
    FirstOf(IF key_points = <<>>
            THEN LeadingPoints(FirstOf(sentences, FirstSentences))
            ELSE key_points, MaxPoints)

\* AIProcessor._extract_key_points
extract_key_points(content_lines) ==
    IF content_lines = <<>> THEN <<>>
    ELSE KeyPoints(SplitSentences(Join(content_lines, <<" ">>)),
                   ImportantPoints(SplitSentences(Join(content_lines, <<" ">>))))

\* "wu ju-ti nei-rong" (no specific content)
NoContentText == <<"u65E0", "u5177", "u4F53", "u5185", "u5BB9">>

\* f"- {point}" for every point
RECURSIVE Bullets(_)
Bullets(key_points) ==
    IF key_points = <<>> THEN <<>>
    ELSE <<<<"-", " ">> \o Head(key_points)>> \o Bullets(Tail(key_points))

\* The text _local_process makes of one section, given its lines and its
\* key points.
ProcessedSection(lines, key_points) ==
    SectionMark \o <<" ">> \o Strip(Head(lines)) \o <<"\n">>
        \o (IF key_points = <<>> THEN NoContentText
            ELSE Join(Bullets(key_points), <<"\n">>))

RECURSIVE ProcessedSections(_)
ProcessedSections(sections) ==
    IF sections = <<>> THEN <<>>
    ELSE (IF Strip(Head(sections)) = <<>> THEN <<>>
          ELSE <<ProcessedSection(Split(Strip(Head(sections))),
                    extract_key_points(Tail(Split(Strip(Head(sections))))))>>)
             \o ProcessedSections(Tail(sections))

\* AIProcessor._local_process
local_process(content) ==
    Join(ProcessedSections(SplitOn(content, SectionMark)), <<"\n", "\n">>)

\* AIProcessor.send_to_ai
send_to_ai(content) == local_process(content)

\* The node parse_ai_response makes of the lines of one section.
ParsedNode(lines) ==
    [title |-> Strip(Head(lines)),
     content |-> Str(IF Len(lines) > 1 THEN Strip(Join(Tail(lines), <<"\n">>))
                     ELSE <<>>),
     children |-> <<>>]

RECURSIVE ParsedNodes(_)
ParsedNodes(sections) ==
    IF sections = <<>> THEN <<>>
    ELSE (IF Strip(Head(sections)) = <<>> THEN <<>>
          ELSE <<ParsedNode(Split(Strip(Head(sections))))>>)
             \o ParsedNodes(Tail(sections))

\* "AI zong-jie jie-guo" (AI summary result)
SummaryTitle == <<"A", "I", "u603B", "u7ED3", "u7ED3", "u679C">>

\* The end of parse_ai_response, given the nodes parsed.
ParsedOrWhole(knowledge_tree, ai_response) ==
    IF knowledge_tree = <<>>
    THEN <<[title |-> SummaryTitle, content |-> Str(ai_response), children |-> <<>>]>>
    ELSE knowledge_tree

\* AIProcessor.parse_ai_response
parse_ai_response(ai_response) ==
    ParsedOrWhole(ParsedNodes(SplitOn(ai_response, SectionMark)), ai_response)

\* ------------------------------------------------------------ input files

\* The number of text units (lines of page text, paragraphs, shape texts) an
\* input file holds at most; a page or slide without units counts as one.
MaxUnits == 2

\* Text units, one of each class of the line classifier:
\*   LineIntro    yin-yan              "introduction"       heading, concept
\*   LineBody     nei-rong + " P1"     "content" + residue  no heading, concept
\*   LineExample  li + "1"             "example 1"          no heading, no concept
\*   LineExercise xi-ti jie            "exercise section"   heading, no concept
LineIntro == <<"u5F15", "u8A00">>
LineBody == <<"u5185", "u5BB9", " ", "P", "1">>
LineExample == <<"u4F8B", "1">>
LineExercise == <<"u4E60", "u9898", "u8282">>
LinePool == {LineIntro, LineBody, LineExample, LineExercise}

\* The page of the specification's worked example, four lines:
\*   yin-yan / zhe shi zhong-yao nei-rong. / li 1: tiao-guo zhe-ge /
\*   jie-lun: zong-jie ru-xia, zhe shi guan-jian.
ExampleIntro == <<"u5F15", "u8A00">>
ExampleBody == <<"u8FD9", "u662F", "u91CD", "u8981", "u5185", "u5BB9", "u3002">>
ExampleSkipped == <<"u4F8B", "1", "uFF1A", "u8DF3", "u8FC7", "u8FD9", "u4E2A">>
ExampleConclusion ==
    <<"u7ED3", "u8BBA", "uFF1A", "u603B", "u7ED3", "u5982", "u4E0B", "uFF0C",
      "u8FD9", "u662F", "u5173", "u952E", "u3002">>
ExampleLines == <<ExampleIntro, ExampleBody, ExampleSkipped, ExampleConclusion>>
ExamplePage == Page(Join(ExampleLines, <<"\n">>), "ok", "ok")

\* The sequences of exactly n units of the pool.
UnitSeqs(n) == [1..n -> LinePool]

\* The pages of n lines that both readers read, and the one-line pages on
\* which a reader fails.
TextPages(n) == {Page(Join(ls, <<"\n">>), "ok", "ok") : ls \in UnitSeqs(n)}
FaultPages ==
    {Page(LineBody, "raise", "ok"), Page(LineBody, "ok", "color"),
     Page(LineBody, "ok", "color_fail"), Page(LineBody, "ok", "other")}

PageCost(n) == IF n = 0 THEN 1 ELSE n

\* The page sequences that hold at most b units.
RECURSIVE PagesWithin(_)
PagesWithin(b) ==
    {<<>>} \cup
    UNION { UNION { {<<p>> \o rest : rest \in PagesWithin(b - PageCost(n))}
                    : p \in TextPages(n) \cup (IF n = 1 THEN FaultPages ELSE {}) }
            : n \in {k \in 0..b : PageCost(k) <= b} }

PdfFile(fitz_open, plumber_open, pages) ==
    [kind |-> "pdf", fitz_open |-> fitz_open, plumber_open |-> plumber_open,
     author |-> "Unknown", pages |-> pages]

\* Longer inputs beside the bounded ones: the worked example; a text of two
\* sections with the same title, on one page and split over two; a rejected
\* heading that ends a page, with two plain lines on the next page; and an
\* opened section, a rejected heading on a page the secondary reader cannot
\* read, and a plain line on a third page.
TwoSections == <<LineIntro, LineBody, LineIntro, LineBody, LineBody>>
\* A section opened and given a line, then a rejected heading.
ClosedByExercise == <<LineIntro, LineBody, LineExercise>>
\* Two accepted headings in a row (yin-yan, "introduction", then gai-shu,
\* "overview"), then a plain line.
LineOverview == <<"u6982", "u8FF0">>
HeadingPair == <<LineIntro, LineOverview, LineBody>>
\* Numbered lines without a key-point keyword ("1. ding-yi", "1. definition";
\* "12. yin-yan", "12. introduction") after an opened section with a line,
\* each followed by a plain line.
LineNumbered == <<"1", ".", " ", "u5B9A", "u4E49">>
LineNumberedIntro == <<"1", "2", ".", " ", "u5F15", "u8A00">>
NumberedLines == <<LineIntro, LineBody, LineNumbered, LineBody, LineNumberedIntro, LineBody>>
ExercisePages ==
    <<Page(LineExercise, "ok", "ok"),
      Page(Join(<<LineBody, LineBody>>, <<"\n">>), "ok", "ok")>>
UnreadExercisePages ==
    <<Page(LineIntro, "ok", "ok"), Page(LineExercise, "ok", "other"),
      Page(LineBody, "ok", "ok")>>
LongPages ==
    { <<ExamplePage>>,
      <<Page(Join(TwoSections, <<"\n">>), "ok", "ok")>>,
      <<Page(Join(SubSeq(TwoSections, 1, 2), <<"\n">>), "ok", "ok"),
        Page(Join(SubSeq(TwoSections, 3, 5), <<"\n">>), "ok", "ok")>>,
      ExercisePages,
      UnreadExercisePages,
      <<Page(Join(ClosedByExercise, <<"\n">>), "ok", "ok")>>,
      <<Page(Join(HeadingPair, <<"\n">>), "ok", "ok")>>,
      <<Page(Join(NumberedLines, <<"\n">>), "ok", "ok")>> }

PdfFiles ==
    {PdfFile(fo, po, ps) : fo \in BOOLEAN, po \in BOOLEAN,
                           ps \in PagesWithin(MaxUnits) \cup LongPages}

\* Paragraph styles: body text and a heading style.
StyleNormal == <<"N", "o", "r", "m", "a", "l">>
StyleHeading == <<"H", "e", "a", "d", "i", "n", "g", " ", "1">>
ParaPool ==
    {Para(t, StyleNormal) : t \in LinePool \cup {<<" ">>}}
        \cup {Para(t, StyleHeading) : t \in {LineBody, LineExample}}

DocxFiles ==
    {[kind |-> "docx", paras |-> ps] :
        ps \in UNION {[1..n -> ParaPool] : n \in 0..MaxUnits}
               \cup {[i \in 1..Len(TwoSections) |-> Para(TwoSections[i], StyleNormal)],
                     [i \in 1..Len(ClosedByExercise) |->
                         Para(ClosedByExercise[i], StyleNormal)]}}

\* A title shape's text: a title that is no heading (biao-ti, "title") or blank.
TitleText == <<"u6807", "u9898">>
SlideHeads == {<<FALSE, <<>> >>, <<TRUE, TitleText>>, <<TRUE, <<" ">> >>}

RECURSIVE SlidesWithin(_)
SlidesWithin(b) ==
    {<<>>} \cup
    UNION { UNION { {<<Slide(h[1], h[2], sh)>> \o rest :
                        rest \in SlidesWithin(b - PageCost(n))}
                    : h \in SlideHeads, sh \in UnitSeqs(n) }
            : n \in {k \in 0..b : PageCost(k) <= b} }

\* The lines of ClosedByExercise on two slides, the second with the opened
\* section's title in its title shape.
ClosedSlides ==
    <<Slide(FALSE, <<>>, SubSeq(ClosedByExercise, 1, 1)),
      Slide(TRUE, LineIntro, SubSeq(ClosedByExercise, 2, 3))>>

\* A slide with a blank shape before a plain line, and a slide with a blank
\* shape only.
BlankShapeSlides ==
    <<Slide(TRUE, TitleText, << <<" ">>, LineBody >>),
      Slide(FALSE, <<>>, << <<" ">> >>)>>

\* A plain line before the first heading, an accepted heading and a plain
\* line on one slide, and a plain line on the next.
CarriedSlides ==
    <<Slide(FALSE, <<>>, <<LineBody, LineIntro, LineBody>>),
      Slide(TRUE, TitleText, <<LineBody>>)>>

PptxFiles ==
    {[kind |-> "pptx", slides |-> sl] :
        sl \in SlidesWithin(MaxUnits)
               \cup { <<Slide(TRUE, TitleText, SubSeq(TwoSections, 1, 2)),
                        Slide(FALSE, <<>>, SubSeq(TwoSections, 3, 5))>>,
                      ClosedSlides, BlankShapeSlides, CarriedSlides }}

\* ------------------------------------------------------------------ state

VARIABLES
    \* an extraction: the input file, the function called on it, what it returned
    file, call, result,
    \* inside extract_with_pymupdf / extract_with_pdfplumber, line by line:
    \* the reader running, the place in its loops, the loop index over pages,
    \* the lines of the page still to come, content['sections'],
    \* current_section, skip_section
    reader, pc, page_num, lines, sections, current_section, skip_section,
    \* the readers invoked since the call was made, in the order of their calls
    invoked,
    \* MainWindow: the file list widget's items, self.documents,
    \* self.knowledge_tree, the tree widget's items, the status bar message,
    \* the file the preview window shows
    file_list, documents, knowledge_tree, tree_items, status, preview,
    \* the summary passes, node edits and node deletions carried out so far
    tree_ops,
    \* a function of the text or summary layer called on its own: its
    \* argument, the function, what the call did (returned a value or raised)
    input, applied, answer

xvars == <<file, call, result>>
bvars == <<reader, pc, page_num, lines, sections, current_section, skip_section,
           invoked>>
mvars == <<file_list, documents, knowledge_tree, tree_items, status, preview,
           tree_ops>>
fvars == <<input, applied, answer>>
vars == <<xvars, bvars, mvars, fvars>>

\* A status bar message: its fixed text and the text formatted into it.
Status(kind, arg) == [kind |-> kind, arg |-> arg]

InitCall == call = "none" /\ result = None
InitBuilder ==
    /\ reader = "none" /\ pc = "idle" /\ page_num = 0 /\ lines = <<>>
    /\ sections = <<>> /\ current_section = None /\ skip_section = FALSE
    /\ invoked = <<>>
InitWindow ==
    /\ file_list = <<>> /\ documents = <<>> /\ knowledge_tree = <<>>
    /\ tree_items = <<>> /\ status = Status("ready", <<>>) /\ preview = <<>>
    /\ tree_ops = 0
InitFunction == input = None /\ applied = "none" /\ answer = None

\* ------------------------------------------------- extraction, call by call

InitExtract ==
    /\ file \in PdfFiles \cup DocxFiles \cup PptxFiles
    /\ InitCall /\ InitBuilder /\ InitWindow /\ InitFunction

CallPymupdf ==
    /\ call = "none" /\ file.kind = "pdf"
    /\ call' = "extract_with_pymupdf"
    /\ result' = extract_with_pymupdf(file)
    /\ UNCHANGED <<file, bvars, mvars, fvars>>

CallPdfplumber ==
    /\ call = "none" /\ file.kind = "pdf"
    /\ call' = "extract_with_pdfplumber"
    /\ result' = extract_with_pdfplumber(file)
    /\ UNCHANGED <<file, bvars, mvars, fvars>>

CallPdfContent ==
    /\ call = "none" /\ file.kind = "pdf"
    /\ call' = "extract_pdf_content"
    /\ result' = extract_pdf_content(file)
    /\ UNCHANGED <<file, bvars, mvars, fvars>>

CallDocx ==
    /\ call = "none" /\ file.kind = "docx"
    /\ call' = "extract_docx_content"
    /\ result' = extract_docx_content(file)
    /\ UNCHANGED <<file, bvars, mvars, fvars>>

CallPptx ==
    /\ call = "none" /\ file.kind = "pptx"
    /\ call' = "extract_pptx_content"
    /\ result' = extract_pptx_content(file)
    /\ UNCHANGED <<file, bvars, mvars, fvars>>

NextExtract == CallPymupdf \/ CallPdfplumber \/ CallPdfContent \/ CallDocx \/ CallPptx

SpecExtract == InitExtract /\ [][NextExtract]_vars

\* ------------------------------- the page-description builders, line by line

\* The text a reader obtains for a page ("" when it obtains none), and
\* whether the primary reader's page handling raises.
ReaderText(r, page) == IF r = "pymupdf" THEN page.text ELSE PlumberText(page)
ReaderRaises(r, page) == r = "pymupdf" /\ page.fitz = "raise"

InitBuilderRun ==
    /\ file \in PdfFiles
    /\ InitCall /\ InitBuilder /\ InitWindow /\ InitFunction

\* The call of a reader: extract_with_pymupdf(filepath) or
\* extract_with_pdfplumber(filepath).
Enter ==
    /\ pc = "idle"
    /\ \E r \in {"pymupdf", "pdfplumber"} :
          /\ reader' = r
          /\ call' = IF r = "pymupdf" THEN "extract_with_pymupdf"
                     ELSE "extract_with_pdfplumber"
          /\ invoked' = <<r>>
    /\ pc' = "open"
    /\ UNCHANGED <<file, result, page_num, lines, sections, current_section,
                   skip_section, mvars, fvars>>

\* The call of extract_pdf_content(filepath), which begins with
\* `result = DocumentProcessor.extract_with_pymupdf(filepath)`.
EnterPdfContent ==
    /\ pc = "idle"
    /\ call' = "extract_pdf_content"
    /\ reader' = "pymupdf"
    /\ invoked' = <<"pymupdf">>
    /\ pc' = "open"
    /\ UNCHANGED <<file, result, page_num, lines, sections, current_section,
                   skip_section, mvars, fvars>>

\* A variant of Open in which a primary that cannot open the file calls the
\* secondary, as the secondary calls the primary (cut off after five calls).
OpenMutual ==
    /\ pc = "open"
    /\ IF reader = "pymupdf"
       THEN IF file.fitz_open
            THEN /\ pc' = "page"
                 /\ UNCHANGED <<reader, result, invoked>>
            ELSE IF Len(invoked) < 5
            THEN /\ pc' = "open"
                 /\ reader' = "pdfplumber"
                 /\ invoked' = Append(invoked, "pdfplumber")
                 /\ UNCHANGED result
            ELSE /\ pc' = "done"
                 /\ result' = None
                 /\ UNCHANGED <<reader, invoked>>
       ELSE IF file.plumber_open
            THEN /\ pc' = "page"
                 /\ UNCHANGED <<reader, result, invoked>>
            ELSE /\ pc' = "open"
                 /\ reader' = "pymupdf"
                 /\ invoked' = Append(invoked, "pymupdf")
                 /\ UNCHANGED result
    /\ page_num' = 0 /\ lines' = <<>> /\ sections' = <<>>
    /\ current_section' = None
    /\ UNCHANGED <<file, call, skip_section, mvars, fvars>>

\* fitz.open / pdfplumber.open: a primary that cannot open the file returns
\* None; a secondary that cannot open it calls extract_with_pymupdf.
Open ==
    /\ pc = "open"
    /\ IF reader = "pymupdf"
       THEN IF file.fitz_open
            THEN /\ pc' = "page"
                 /\ UNCHANGED <<reader, result, invoked>>
            ELSE /\ pc' = "done"
                 /\ result' = None
                 /\ UNCHANGED <<reader, invoked>>
       ELSE IF file.plumber_open
            THEN /\ pc' = "page"
                 /\ UNCHANGED <<reader, result, invoked>>
            ELSE /\ pc' = "open"
                 /\ reader' = "pymupdf"
                 /\ invoked' = Append(invoked, "pymupdf")
                 /\ UNCHANGED result
    /\ page_num' = 0 /\ lines' = <<>> /\ sections' = <<>>
    /\ current_section' = None
    /\ UNCHANGED <<file, call, skip_section, mvars, fvars>>

\* The head of the loop over the pages, for a page that yields no lines: the
\* primary's page raises, or the reader obtains no text.
SkipPage ==
    /\ pc = "page" /\ page_num < Len(file.pages)
    /\ LET page == file.pages[page_num + 1]
       IN  /\ ReaderRaises(reader, page) \/ ReaderText(reader, page) = <<>>
           /\ current_section' =
                  IF ReaderRaises(reader, page)
                  THEN PageFailed(BuilderState(sections, current_section, skip_section),
                                  page_num).current_section
                  ELSE current_section
    /\ page_num' = page_num + 1
    /\ UNCHANGED <<file, call, result, reader, pc, lines, sections, skip_section,
                   invoked, mvars, fvars>>

\* The head of the loop over the pages, for a page with text: the text is
\* cleaned and split, and skip_section starts at False.
BeginPage ==
    /\ pc = "page" /\ page_num < Len(file.pages)
    /\ LET page == file.pages[page_num + 1]
       IN  /\ ~ReaderRaises(reader, page) /\ ReaderText(reader, page) # <<>>
           /\ lines' = PageLines(ReaderText(reader, page))
    /\ skip_section' = FALSE
    /\ pc' = "line"
    /\ UNCHANGED <<file, call, result, reader, page_num, sections, current_section,
                   invoked, mvars, fvars>>

\* The builder's variables take the values of the builder state st.
BuilderBecomes(st) ==
    /\ sections' = st.sections
    /\ current_section' = st.current_section
    /\ skip_section' = st.skip_section

\* One line of the page; after the last one the loop over the pages goes on.
Line ==
    /\ pc = "line" /\ lines # <<>>
    /\ IF reader = "pymupdf"
       THEN BuilderBecomes(PdfLine(BuilderState(sections, current_section, skip_section),
                                   Head(lines)))
       ELSE BuilderBecomes(PlumberLine(BuilderState(sections, current_section,
                                                    skip_section),
                                       Head(lines)))
    /\ lines' = Tail(lines)
    /\ IF Tail(lines) = <<>>
       THEN pc' = "page" /\ page_num' = page_num + 1
       ELSE pc' = "line" /\ page_num' = page_num
    /\ UNCHANGED <<file, call, result, reader, invoked, mvars, fvars>>

\* After the last page: the open section is added if it has content, and the
\* content dictionary is returned.
Return ==
    /\ pc = "page" /\ page_num = Len(file.pages)
    /\ sections' = AppendIfContent(sections, current_section)
    /\ result' = PdfReturn(Len(file.pages), file.author,
                           BuilderState(sections, current_section, skip_section))
    /\ pc' = "done"
    /\ UNCHANGED <<file, call, reader, page_num, lines, current_section,
                   skip_section, invoked, mvars, fvars>>

\* extract_pdf_content once its call of the primary has returned: the
\* result is returned if it has sections and the first has content, else
\* `return DocumentProcessor.extract_with_pdfplumber(filepath)` is begun.
PrimaryTested ==
    /\ pc = "done" /\ call = "extract_pdf_content" /\ invoked = <<"pymupdf">>
    /\ IF PrimaryUsable(result)
       THEN /\ pc' = "returned"
            /\ UNCHANGED <<reader, invoked>>
       ELSE /\ pc' = "open"
            /\ reader' = "pdfplumber"
            /\ invoked' = Append(invoked, "pdfplumber")
    /\ UNCHANGED <<file, call, result, page_num, lines, sections, current_section,
                   skip_section, mvars, fvars>>

\* extract_pdf_content returns what its call of the secondary returned.
SecondaryReturned ==
    /\ pc = "done" /\ call = "extract_pdf_content" /\ Len(invoked) >= 2
    /\ pc' = "returned"
    /\ UNCHANGED <<file, call, result, reader, page_num, lines, sections,
                   current_section, skip_section, invoked, mvars, fvars>>

NextBuilder ==
    \/ Enter \/ EnterPdfContent \/ Open \/ SkipPage \/ BeginPage \/ Line \/ Return
    \/ PrimaryTested \/ SecondaryReturned

SpecBuilder == InitBuilderRun /\ [][NextBuilder]_vars

\* --------------------------------------------------------------- MainWindow

\* The number of files uploaded in a session at most.
MaxFiles == 2

\* os.path.basename: what follows the last "/".
BaseName(path) ==
    LET cuts == {i \in 1..Len(path) : path[i] = "/"}
        last == IF cuts = {} THEN 0 ELSE CHOOSE i \in cuts : \A j \in cuts : j <= i
    IN  SubSeq(path, last + 1, Len(path))

\* os.path.splitext(path)[1]: from the last "." of the base name on, unless
\* that is its leading character; "" when there is none.
SplitExt(path) ==
    LET base == BaseName(path)
        dots == {i \in 2..Len(base) : base[i] = "."}
    IN  IF dots = {} THEN <<>>
        ELSE SubSeq(base, CHOOSE i \in dots : \A j \in dots : j <= i, Len(base))

\* str.lower()
LowerStr(str) == [i \in 1..Len(str) |-> Lower(str[i])]

ExtPdf == <<".", "p", "d", "f">>
ExtDocx == <<".", "d", "o", "c", "x">>
ExtPptx == <<".", "p", "p", "t", "x">>

\* A file the reader library cannot open at all (Document(filepath) or
\* Presentation(filepath) raises).
Unreadable == [kind |-> "unreadable"]

\* A file on disk: its path and what the reader libraries find in it.
DiskFile(path, data) == [path |-> path, data |-> data]

ThreeSections == <<LineIntro, LineBody, LineIntro, LineBody, LineIntro, LineBody>>

\* The files a user can pick in the upload dialog.
DiskFiles ==
    { \* a/n.pdf: the worked example, both readers work
      DiskFile(<<"a", "/", "n", ".", "p", "d", "f">>,
               PdfFile(TRUE, TRUE, <<ExamplePage>>)),
      \* b/n.pdf: the same base name in another folder; neither reader opens it
      DiskFile(<<"b", "/", "n", ".", "p", "d", "f">>,
               PdfFile(FALSE, FALSE, <<ExamplePage>>)),
      \* a/x.PDF: only the secondary reader opens it; two sections
      DiskFile(<<"a", "/", "x", ".", "P", "D", "F">>,
               PdfFile(FALSE, TRUE, <<Page(Join(TwoSections, <<"\n">>), "ok", "ok")>>)),
      \* a/e.pdf: no pages, no sections
      DiskFile(<<"a", "/", "e", ".", "p", "d", "f">>, PdfFile(TRUE, TRUE, <<>>)),
      \* a/d.docx: three sections
      DiskFile(<<"a", "/", "d", ".", "d", "o", "c", "x">>,
               [kind |-> "docx",
                paras |-> [i \in 1..Len(ThreeSections) |->
                              Para(ThreeSections[i], StyleNormal)]]),
      \* a/bad.docx: not a readable document
      DiskFile(<<"a", "/", "b", ".", "d", "o", "c", "x">>, Unreadable),
      \* a/s.pptx: two sections over two slides
      DiskFile(<<"a", "/", "s", ".", "p", "p", "t", "x">>,
               [kind |-> "pptx",
                slides |-> <<Slide(TRUE, TitleText, SubSeq(TwoSections, 1, 2)),
                             Slide(FALSE, <<>>, SubSeq(TwoSections, 3, 5))>>]),
      \* a/r.txt: an extension process_file does not handle
      DiskFile(<<"a", "/", "r", ".", "t", "x", "t">>, Unreadable) }

\* A variant of WithFilepath that takes a missing content dictionary for an
\* empty one instead of raising.
WithFilepathOrEmpty(content, file_path) ==
    [outcome |-> "content",
     content |-> [metadata |-> IF content = None THEN EmptyMetadata
                               ELSE content.metadata,
                  sections |-> IF content = None THEN <<>> ELSE content.sections,
                  filepath |-> file_path]]

\* `content['filepath'] = file_path`: a TypeError when content is None.
WithFilepath(content, file_path) ==
    IF content = None THEN [outcome |-> "raise", error |-> <<"TypeError">>]
    ELSE [outcome |-> "content",
          content |-> [metadata |-> content.metadata,
                       sections |-> content.sections,
                       filepath |-> file_path]]

\* What the `try` block of process_file computes for a file: the content
\* dictionary of the extractor its extension selects, "return" for another
\* extension, and the exception raised otherwise (the reader library's, or
\* the TypeError of `content['filepath'] = file_path` on None).
Extracted(f, ext) ==
    IF ext \notin {ExtPdf, ExtDocx, ExtPptx} THEN [outcome |-> "return"]
    ELSE IF ext # ExtPdf /\ f.data = Unreadable
    THEN [outcome |-> "raise", error |-> <<"PackageNotFoundError">>]
    ELSE IF ext = ExtPdf THEN WithFilepath(extract_pdf_content(f.data), f.path)
    ELSE IF ext = ExtDocx THEN WithFilepath(extract_docx_content(f.data), f.path)
    ELSE WithFilepath(extract_pptx_content(f.data), f.path)

\* What an upload works on: the file list widget's items, self.documents
\* and the status bar message.
Uploaded(items, docs, message) ==
    [file_list |-> items, documents |-> docs, status |-> message]

\* A variant of Processed that keeps only the document of the file just read.
ProcessedReplacing(w, got, file_path) ==
    CASE got.outcome = "return" -> w
      [] got.outcome = "raise" -> [w EXCEPT !.status = Status("error", got.error)]
      [] got.outcome = "content" ->
            [w EXCEPT !.documents = <<got.content>>,
                      !.status = Status("loaded", BaseName(file_path))]

\* The end of process_file, given what its `try` block computed: from the
\* window w to the window after the file.
Processed(w, got, file_path) ==
    CASE got.outcome = "return" -> w
      [] got.outcome = "raise" -> [w EXCEPT !.status = Status("error", got.error)]
      [] got.outcome = "content" ->
            [w EXCEPT !.documents = Append(@, got.content),
                      !.status = Status("loaded", BaseName(file_path))]

\* MainWindow.process_file
process_file(w, f) ==
    Processed(w, Extracted(f, LowerStr(SplitExt(f.path))), f.path)

\* `for file_path in files:` of upload_files: the item is added to the file
\* list, then the file is processed.
RECURSIVE upload_files(_, _)
upload_files(w, files) ==
    IF files = <<>> THEN w
    ELSE upload_files(
             process_file([w EXCEPT !.file_list = Append(@, BaseName(Head(files).path))],
                          Head(files)),
             Tail(files))

\* The number of files picked in one upload dialog at most.
MaxBatch == 2

\* The selections of the upload dialog, the cancelled dialog (no file) included.
Batches == UNION {[1..n -> DiskFiles] : n \in 0..MaxBatch}

\* The window after an upload.
UploadBecomes(w) ==
    /\ file_list' = w.file_list
    /\ documents' = w.documents
    /\ status' = w.status

\* MainWindow.upload_files with the files picked in the dialog.
UploadFiles(files) ==
    /\ Len(file_list) + Len(files) <= MaxFiles
    /\ UploadBecomes(upload_files(Uploaded(file_list, documents, status), files))
    /\ UNCHANGED <<knowledge_tree, tree_items, preview, tree_ops, xvars, bvars, fvars>>

\* MainWindow.upload_files with one file picked.
UploadFile(f) == UploadFiles(<<f>>)

\* The tree widget's item for node i (from 0): its text f"{i + 1}. {title}"
\* and the node stored as its data.
TreeItem(i, node) ==
    [text |-> DecimalStr(i + 1) \o <<".", " ">> \o node.title, data |-> node]

TreeItems(tree) == [i \in 1..Len(tree) |-> TreeItem(i - 1, tree[i])]

\* A variant of MainWindow.generate_knowledge_tree that adds the nodes of the
\* documents to the tree held.
GenerateOntoTree ==
    /\ IF documents = <<>>
       THEN /\ status' = Status("upload_first", <<>>)
            /\ UNCHANGED <<knowledge_tree, tree_items>>
       ELSE /\ knowledge_tree' = knowledge_tree \o generate_knowledge_tree(documents)
            /\ tree_items' =
                   TreeItems(knowledge_tree \o generate_knowledge_tree(documents))
            /\ status' = Status("tree_generated", <<>>)
    /\ UNCHANGED <<file_list, documents, preview, tree_ops, xvars, bvars, fvars>>

\* MainWindow.generate_knowledge_tree
GenerateKnowledgeTree ==
    /\ IF documents = <<>>
       THEN /\ status' = Status("upload_first", <<>>)
            /\ UNCHANGED <<knowledge_tree, tree_items>>
       ELSE /\ knowledge_tree' = generate_knowledge_tree(documents)
            /\ tree_items' = TreeItems(generate_knowledge_tree(documents))
            /\ status' = Status("tree_generated", <<>>)
    /\ UNCHANGED <<file_list, documents, preview, tree_ops, xvars, bvars, fvars>>

\* node_data.get('filepath', '')
NodeFilepath(node_data) ==
    IF "filepath" \in DOMAIN node_data THEN node_data.filepath ELSE <<>>

\* MainWindow.show_preview: a click on tree item i (from 1). Without a file
\* path in the item's node nothing happens; with one the preview window
\* shows that file.
ShowPreview(i) ==
    /\ i \in 1..Len(tree_items)
    /\ LET filepath == NodeFilepath(tree_items[i].data)
       IN  preview' = IF filepath = <<>> THEN preview ELSE filepath
    /\ UNCHANGED <<file_list, documents, knowledge_tree, tree_items, status,
                   tree_ops, xvars, bvars, fvars>>

\* The number of summary passes, node edits and node deletions followed in
\* one session.
MaxTreeOps == 2

\* The number of tree items selected at most.
MaxSelected == 2

\* MainWindow.process_with_ai
ProcessWithAI ==
    /\ tree_ops < MaxTreeOps
    /\ IF knowledge_tree = <<>>
       THEN /\ status' = Status("generate_first", <<>>)
            /\ UNCHANGED <<knowledge_tree, tree_items, tree_ops>>
       ELSE /\ tree_ops' = tree_ops + 1
            /\ knowledge_tree' =
                   parse_ai_response(send_to_ai(prepare_content_for_ai(knowledge_tree)))
            /\ tree_items' = TreeItems(
                   parse_ai_response(send_to_ai(prepare_content_for_ai(knowledge_tree))))
            /\ status' = Status("ai_done", <<>>)
    /\ UNCHANGED <<file_list, documents, preview, xvars, bvars, fvars>>

\* The selections of items of the tree widget, by position (from 1).
Selections(items) ==
    {sel \in SUBSET (1..Len(items)) : Cardinality(sel) <= MaxSelected}

\* What NodeEditDialog shows as content: a list joined with newlines.
DialogContent(node_data) ==
    IF IsList(node_data.content) THEN Join(node_data.content.list, <<"\n">>)
    ELSE node_data.content.str

\* A variant of get_data that files the node edited under the new node.
GetDataKeepingOld(node_data, title, content) ==
    [title |-> title, content |-> Str(content), children |-> <<node_data>>]

\* A variant of get_data that takes the title from the dialog and leaves the
\* node's content as it was.
GetDataTitleOnly(node_data, title, content) ==
    [title |-> title, content |-> node_data.content, children |-> node_data.children]

\* NodeEditDialog.get_data, with `title` and `content` in the dialog's fields.
get_data(node_data, title, content) ==
    [title |-> title, content |-> Str(content), children |-> node_data.children]

\* What the user leaves in the fields of the dialog: the text shown or a
\* text typed, "gai-nian" (concept) as a title and a sentence with
\* important words or nothing as content.
TitleTyped == <<"u6982", "u5FF5">>
ContentTyped ==
    <<"u6838", "u5FC3", "u6982", "u5FF5", "u7684", "u5B9A", "u4E49", "u662F",
      "u91CD", "u8981", "u7684", "u7279", "u70B9", "u4E4B", "u4E00", "u3002">>
TitlesLeft(node_data) == {node_data.title, TitleTyped}
ContentsLeft(node_data) == {DialogContent(node_data), ContentTyped}

\* item.setText / item.setData of edit_selected_node for the item at
\* node_index (from 0).
ItemUpdated(items, node_index, updated_data) ==
    [items EXCEPT ![node_index + 1] = TreeItem(node_index, updated_data)]

\* MainWindow.edit_selected_node with the items at `selected` selected; the
\* dialog is accepted or not.
EditSelectedNode(selected, accepted, title, content) ==
    /\ tree_ops < MaxTreeOps
    /\ IF Cardinality(selected) # 1
       THEN UNCHANGED <<knowledge_tree, tree_items, status, tree_ops>>
       ELSE LET node_index == (CHOOSE i \in selected : TRUE) - 1
            IN  IF node_index < Len(knowledge_tree) /\ accepted
                THEN /\ knowledge_tree' =
                            [knowledge_tree EXCEPT ![node_index + 1] =
                                get_data(knowledge_tree[node_index + 1], title, content)]
                     /\ tree_items' = ItemUpdated(tree_items, node_index,
                            get_data(knowledge_tree[node_index + 1], title, content))
                     /\ status' = Status("node_updated", <<>>)
                     /\ tree_ops' = tree_ops + 1
                ELSE UNCHANGED <<knowledge_tree, tree_items, status, tree_ops>>
    /\ UNCHANGED <<file_list, documents, preview, xvars, bvars, fvars>>

\* list without the element at position i (from 1): del list[i - 1]
Without(list, i) == SubSeq(list, 1, i - 1) \o SubSeq(list, i + 1, Len(list))

\* A variant of NodesDeleted that takes the positions the items had when the
\* loop began, lowest first, without looking the items up again.
RECURSIVE NodesDeletedByFirstIndex(_, _)
NodesDeletedByFirstIndex(w, selected) ==
    IF selected = {} THEN w
    ELSE LET i == CHOOSE i \in selected : \A j \in selected : i <= j
         IN  NodesDeletedByFirstIndex(
                 [knowledge_tree |-> IF i <= Len(w.knowledge_tree)
                                     THEN Without(w.knowledge_tree, i)
                                     ELSE w.knowledge_tree,
                  tree_items |-> IF i <= Len(w.tree_items)
                                 THEN Without(w.tree_items, i)
                                 ELSE w.tree_items],
                 selected \ {i})

\* The loop of delete_selected_node over the selected items: every item is
\* looked up in the widget again, the node at its index is deleted when
\* there is one, and the item is taken from the widget.
RECURSIVE NodesDeleted(_, _)
NodesDeleted(w, selected) ==
    IF selected = {} THEN w
    ELSE LET i == CHOOSE i \in selected : \A j \in selected : j <= i
         IN  NodesDeleted(
                 [knowledge_tree |-> IF i - 1 < Len(w.knowledge_tree)
                                     THEN Without(w.knowledge_tree, i)
                                     ELSE w.knowledge_tree,
                  tree_items |-> Without(w.tree_items, i)],
                 selected \ {i})

\* The tree and the widget after a deletion.
DeleteBecomes(w) ==
    /\ knowledge_tree' = w.knowledge_tree
    /\ tree_items' = w.tree_items

\* MainWindow.delete_selected_node with the items at `selected` selected;
\* the question is answered with Yes or No.
DeleteSelectedNode(selected, yes) ==
    /\ tree_ops < MaxTreeOps
    /\ IF selected = {} \/ ~yes
       THEN UNCHANGED <<knowledge_tree, tree_items, status, tree_ops>>
       ELSE /\ tree_ops' = tree_ops + 1
            /\ DeleteBecomes(NodesDeleted(
                   [knowledge_tree |-> knowledge_tree, tree_items |-> tree_items],
                   selected))
            /\ status' = Status("nodes_deleted", DecimalStr(Cardinality(selected)))
    /\ UNCHANGED <<file_list, documents, preview, xvars, bvars, fvars>>

\* The documents whose file has another base name than file_name:
\* `[doc for doc in self.documents
\*      if os.path.basename(doc['filepath']) != file_name]`
RECURSIVE DocumentsNotOf(_, _)
DocumentsNotOf(docs, file_name) ==
    IF docs = <<>> THEN <<>>
    ELSE (IF BaseName(Head(docs).filepath) # file_name THEN <<Head(docs)>> ELSE <<>>)
             \o DocumentsNotOf(Tail(docs), file_name)

\* The loop of delete_selected_files over the selected items: the documents
\* of the item's file name go, and the item is taken from the list.
RECURSIVE FilesDeleted(_, _)
FilesDeleted(w, selected) ==
    IF selected = {} THEN w
    ELSE LET i == CHOOSE i \in selected : \A j \in selected : j <= i
         IN  FilesDeleted(
                 [file_list |-> Without(w.file_list, i),
                  documents |-> DocumentsNotOf(w.documents, w.file_list[i])],
                 selected \ {i})

\* The file list and the documents after a deletion of files.
FilesBecome(w) ==
    /\ file_list' = w.file_list
    /\ documents' = w.documents

\* A variant of MainWindow.delete_selected_files that leaves the knowledge
\* tree and the tree widget as they are.
DeleteSelectedFilesKeepingTree(selected, yes) ==
    /\ IF selected = {} \/ ~yes
       THEN UNCHANGED <<file_list, documents, status>>
       ELSE /\ FilesBecome(FilesDeleted(
                   [file_list |-> file_list, documents |-> documents], selected))
            /\ status' = Status("files_deleted", DecimalStr(Cardinality(selected)))
    /\ UNCHANGED <<knowledge_tree, tree_items, preview, tree_ops, xvars, bvars, fvars>>

\* MainWindow.delete_selected_files with the items at `selected` of the file
\* list selected; the question is answered with Yes or No.
DeleteSelectedFiles(selected, yes) ==
    /\ IF selected = {} \/ ~yes
       THEN UNCHANGED <<file_list, documents, knowledge_tree, tree_items, status>>
       ELSE /\ FilesBecome(FilesDeleted(
                   [file_list |-> file_list, documents |-> documents], selected))
            /\ status' = Status("files_deleted", DecimalStr(Cardinality(selected)))
            /\ knowledge_tree' = <<>>
            /\ tree_items' = <<>>
    /\ UNCHANGED <<preview, tree_ops, xvars, bvars, fvars>>

\* MainWindow.clear_all_files; the question is answered with Yes or No.
ClearAllFiles(yes) ==
    /\ IF file_list = <<>> \/ ~yes
       THEN UNCHANGED <<file_list, documents, knowledge_tree, tree_items, status>>
       ELSE /\ file_list' = <<>>
            /\ documents' = <<>>
            /\ knowledge_tree' = <<>>
            /\ tree_items' = <<>>
            /\ status' = Status("cleared", <<>>)
    /\ UNCHANGED <<preview, tree_ops, xvars, bvars, fvars>>

\* What becomes of an export once a file name is chosen: the file is
\* written, no file comes out, or the writer raises.
ExportOutcomes == {"written", "no_file", "raise"}

\* MainWindow.export_document: without a tree only the status changes; a
\* cancelled save dialog changes nothing; otherwise the tree is written to a
\* file and the status tells how that went.
ExportDocument(chosen, outcome) ==
    /\ IF knowledge_tree = <<>>
       THEN status' = Status("generate_first", <<>>)
       ELSE IF ~chosen THEN UNCHANGED status
       ELSE status' = Status("export", outcome)
    /\ UNCHANGED <<file_list, documents, knowledge_tree, tree_items, preview,
                   tree_ops, xvars, bvars, fvars>>

Init ==
    /\ file = Unreadable
    /\ InitCall /\ InitBuilder /\ InitWindow /\ InitFunction

Next ==
    \/ \E files \in Batches : UploadFiles(files)
    \/ GenerateKnowledgeTree
    \/ \E i \in 1..MaxFiles * 3 : ShowPreview(i)
    \/ ProcessWithAI
    \/ \E selected \in Selections(tree_items), accepted \in BOOLEAN :
          \E title \in UNION {TitlesLeft(tree_items[i].data) : i \in selected},
             content \in UNION {ContentsLeft(tree_items[i].data) : i \in selected} :
              EditSelectedNode(selected, accepted, title, content)
    \/ \E selected \in Selections(tree_items), yes \in BOOLEAN :
          DeleteSelectedNode(selected, yes)
    \/ \E selected \in Selections(file_list), yes \in BOOLEAN :
          DeleteSelectedFiles(selected, yes)
    \/ \E yes \in BOOLEAN : ClearAllFiles(yes)
    \/ \E chosen \in BOOLEAN, outcome \in ExportOutcomes :
          ExportDocument(chosen, outcome)

Spec == Init /\ [][Next]_vars

\* ---------------------------------------- the text functions, call by call
\* What a call did: returned a value, or raised an exception.
Returns(v) == [outcome |-> "return", value |-> v]
Raises(e) == [outcome |-> "raise", error |-> e]

\* is_heading(text) on any argument: len(None) raises TypeError.
IsHeadingCall(text) ==
    IF text = None THEN Raises("TypeError") ELSE Returns(is_heading(text.str))

\* is_concept_content(text) on any argument: None has no strip().
IsConceptContentCall(text) ==
    IF text = None THEN Raises("AttributeError")
    ELSE Returns(is_concept_content(text.str))

\* A variant of the call of clean_content that goes on to re.sub with None.
CleanContentOfStrOnly(text) ==
    IF text = None THEN Raises("TypeError") ELSE Returns(clean_content(text.str))

\* clean_content(text) on any argument: `if not text: return ""` takes None
\* and "" alike.
CleanContentCall(text) ==
    IF text = None THEN Returns(<<>>) ELSE Returns(clean_content(text.str))

\* The length of the short texts.
MaxText == 4

\* The characters of the short texts: a digit, a space, the page letter, a
\* line break, a heading keyword (jie).
TextAlphabet == {"1", " ", "P", "\n", "u8282"}
ShortTexts == UNION {[1..n -> TextAlphabet] : n \in 0..MaxText}

\* A text of n characters that starts with start.
Padded(start, n) == start \o [i \in 1..(n - Len(start)) |-> "a"]

\* Texts around the two length limits of is_heading: with a heading keyword,
\* with a section number, with neither.
LongTexts ==
    {Padded(start, n) :
        start \in {<<"u8282">>, <<"1", ".">>, <<>>},
        n \in {HeadingNumberLen - 1, HeadingNumberLen, HeadingKeywordLen - 1,
               HeadingKeywordLen, HeadingKeywordLen + 1}}

\* Numbered and unnumbered texts, with and without surrounding space, over
\* bodies of each class: none, a non-concept keyword (li), a key-point
\* keyword, a heading keyword (jie), a plain letter, a rejected heading, a
\* non-concept keyword inside.
ItemTexts ==
    {lead \o num \o sep \o body :
        lead \in {<<>>, <<" ">>},
        num \in {<<>>, <<"1", ".">>, <<"1">>},
        sep \in {<<>>, <<" ">>},
        body \in {<<>>, <<"u4F8B">>, KeyPoint2, <<"u8282">>, <<"a">>, LineExercise,
                  <<"a", "u4F8B">>}}

Arguments == {None} \cup {Str(t) : t \in ShortTexts \cup LongTexts \cup ItemTexts}

InitText ==
    /\ input \in Arguments /\ applied = "none" /\ answer = None
    /\ file = Unreadable
    /\ InitCall /\ InitBuilder /\ InitWindow

CallIsHeading ==
    /\ applied = "none"
    /\ applied' = "is_heading"
    /\ answer' = IsHeadingCall(input)
    /\ UNCHANGED <<input, xvars, bvars, mvars>>

CallIsConceptContent ==
    /\ applied = "none"
    /\ applied' = "is_concept_content"
    /\ answer' = IsConceptContentCall(input)
    /\ UNCHANGED <<input, xvars, bvars, mvars>>

CallCleanContent ==
    /\ applied = "none"
    /\ applied' = "clean_content"
    /\ answer' = CleanContentCall(input)
    /\ UNCHANGED <<input, xvars, bvars, mvars>>

\* clean_content called on what clean_content returned.
CallCleanContentAgain ==
    /\ applied = "clean_content" /\ answer.outcome = "return"
    /\ applied' = "clean_content twice"
    /\ answer' = CleanContentCall(Str(answer.value))
    /\ UNCHANGED <<input, xvars, bvars, mvars>>

NextText ==
    CallIsHeading \/ CallIsConceptContent \/ CallCleanContent \/ CallCleanContentAgain

SpecText == InitText /\ [][NextText]_vars

\* ---------------------------------------- the summary pass, call by call
\* The number of nodes of the trees given to the summary pass.
MaxNodes == 2

\* Titles and contents of nodes: a title, no title, a title with the section
\* mark; no content, one line, two lines, the sentence typed in the dialog,
\* a line with the section mark, and lists of lines.
NodeTitles == {<<"T">>, <<>>, <<"T">> \o SectionMark}
NodeContents ==
    {Str(<<>>), Str(<<"a">>), Str(<<"a", "\n", "b">>), Str(ContentTyped),
     Str(<<"a">> \o SectionMark \o <<"b">>),
     List(<<>>), List(<<<<"a">>, <<"b">>>>)}
Nodes == [title : NodeTitles, content : NodeContents, children : {<<>>}]
Trees == UNION {[1..n -> Nodes] : n \in 0..MaxNodes}

InitAI ==
    /\ input \in Trees /\ applied = "none" /\ answer = None
    /\ file = Unreadable
    /\ InitCall /\ InitBuilder /\ InitWindow

\* prepare_content_for_ai(knowledge_tree)
CallPrepare ==
    /\ applied = "none"
    /\ applied' = "prepare_content_for_ai"
    /\ answer' = Returns(prepare_content_for_ai(input))
    /\ UNCHANGED <<input, xvars, bvars, mvars>>

\* send_to_ai(content) on the text prepared
CallSendToAI ==
    /\ applied = "prepare_content_for_ai"
    /\ applied' = "send_to_ai"
    /\ answer' = Returns(send_to_ai(answer.value))
    /\ UNCHANGED <<input, xvars, bvars, mvars>>

\* parse_ai_response(ai_response) on the text prepared, unchanged
CallParsePrepared ==
    /\ applied = "prepare_content_for_ai"
    /\ applied' = "parse_ai_response"
    /\ answer' = Returns(parse_ai_response(answer.value))
    /\ UNCHANGED <<input, xvars, bvars, mvars>>

\* parse_ai_response(ai_response) on what send_to_ai returned
CallParseSent ==
    /\ applied = "send_to_ai"
    /\ applied' = "parse_ai_response of send_to_ai"
    /\ answer' = Returns(parse_ai_response(answer.value))
    /\ UNCHANGED <<input, xvars, bvars, mvars>>

NextAI == CallPrepare \/ CallSendToAI \/ CallParsePrepared \/ CallParseSent

SpecAI == InitAI /\ [][NextAI]_vars

\* ------------------------------------------------------------- properties

\* The functions that build sections from a page-description file, and all
\* the functions that build sections.
PdfCalls == {"extract_with_pymupdf", "extract_with_pdfplumber", "extract_pdf_content"}
BuilderCalls == PdfCalls \cup {"extract_docx_content", "extract_pptx_content"}

\* A call has returned a content dictionary.
Returned(calls) == call \in calls /\ result # None

\* C1: every section a Section Builder emits (extract_with_pymupdf,
\* extract_with_pdfplumber, extract_pdf_content, extract_docx_content,
\* extract_pptx_content with its per-slide pass) has a non-empty content list.
C1_SectionsHaveContent ==
    Returned(BuilderCalls) =>
        \A i \in 1..Len(result.sections) : result.sections[i].content # <<>>

\* C1 happens: the primary reader has emitted two sections from an input in
\* which a heading is followed by content twice.
C1_Witness ==
    /\ call = "extract_with_pymupdf" /\ result # None
    /\ Len(file.pages) = 2
    /\ Len(result.sections) = 2

\* The stripped non-empty lines among ls, in order.
RECURSIVE StrippedLines(_)
StrippedLines(ls) ==
    IF ls = <<>> THEN <<>>
    ELSE (IF Strip(Head(ls)) = <<>> THEN <<>> ELSE <<Strip(Head(ls))>>)
             \o StrippedLines(Tail(ls))

\* The lines the reader r hands to the builder's line loop over the whole
\* file, page after page; a page that raises or has no text hands it none.
RECURSIVE Delivered(_, _)
Delivered(r, pages) ==
    IF pages = <<>> THEN <<>>
    ELSE (IF ReaderRaises(r, Head(pages)) \/ ReaderText(r, Head(pages)) = <<>>
          THEN <<>>
          ELSE StrippedLines(PageLines(ReaderText(r, Head(pages)))))
             \o Delivered(r, Tail(pages))

RejectedHeading(line) == is_heading(line) /\ ~is_concept_content(line)
AcceptedHeading(line) == is_heading(line) /\ is_concept_content(line)

\* Line i of d comes after a rejected heading with no accepted heading since
\* (line i itself included).
UnderLatch(d, i) ==
    \E j \in 1..(i - 1) :
        RejectedHeading(d[j]) /\ \A k \in (j + 1)..i : ~AcceptedHeading(d[k])

\* The number of lines the sections hold, as titles and as content lines.
RECURSIVE RetainedLines(_)
RetainedLines(secs) ==
    IF secs = <<>> THEN 0
    ELSE 1 + Len(Head(secs).content) + RetainedLines(Tail(secs))

NoPageRaises(r, pages) == \A n \in 1..Len(pages) : ~ReaderRaises(r, pages[n])

\* C2: in the page-description builders no line that comes after a rejected
\* heading is retained, as a title or as a content line, until an accepted
\* heading arrives, also when those lines are on a following page. Stated on
\* the returned document of a file none of whose pages raises: it holds no
\* more lines than the input has lines outside the reach of a rejected
\* heading.
C2_LatchedLinesDiscarded ==
    (pc = "done" /\ result # None /\ NoPageRaises(reader, file.pages)) =>
        RetainedLines(result.sections)
            <= Cardinality({i \in 1..Len(Delivered(reader, file.pages)) :
                               ~UnderLatch(Delivered(reader, file.pages), i)})

\* The one section of the worked example.
ExampleSection == [title |-> ExampleIntro, content |-> <<ExampleBody>>]

\* C3, as the code has it: on the single page of the four lines yin-yan /
\* zhe shi zhong-yao nei-rong. / li 1: tiao-guo zhe-ge / jie-lun: ..., the
\* page-description builders emit exactly one section, titled yin-yan with
\* the one content line zhe shi zhong-yao nei-rong.
C3_ExampleOneSection ==
    (Returned(PdfCalls) /\ file.pages = <<ExamplePage>>) =>
        result.sections = <<ExampleSection>>

\* C3 happens: the primary reader has built the sections of the example.
C3_Witness ==
    /\ call = "extract_with_pymupdf" /\ result # None
    /\ file.pages = <<ExamplePage>>
    /\ Len(result.sections) = 1

\* C3, as the specification words it: on the four lines of the example the
\* page-description builders emit exactly two sections, the first being the
\* section yin-yan with the one content line.
C3_ExampleTwoSections ==
    (Returned(PdfCalls) /\ file.pages = <<ExamplePage>>) =>
        /\ Len(result.sections) = 2
        /\ result.sections[1] = ExampleSection

\* C4: no line for which is_concept_content is false is a content line of a
\* section that a page-description builder emits; on the four lines of the
\* example the line li 1: tiao-guo zhe-ge is in no emitted section, and no
\* section titled jie-lun: ... without content is emitted.
C4_OnlyConceptContent ==
    Returned(PdfCalls) =>
        /\ \A i \in 1..Len(result.sections) :
              \A k \in 1..Len(result.sections[i].content) :
                  is_concept_content(result.sections[i].content[k])
        /\ file.pages = <<ExamplePage>> =>
              \A i \in 1..Len(result.sections) :
                  /\ \A k \in 1..Len(result.sections[i].content) :
                        result.sections[i].content[k] # ExampleSkipped
                  /\ result.sections[i].title # ExampleSkipped
                  /\ ~(/\ result.sections[i].title = ExampleConclusion
                       /\ result.sections[i].content = <<>>)

\* C4 happens: a builder has emitted a section with content from a page that
\* holds a line is_concept_content rejects between a heading and a plain
\* line.
C4_Witness ==
    /\ call = "extract_with_pdfplumber" /\ result # None
    /\ file.pages = <<ExamplePage>>
    /\ ~is_concept_content(ExampleSkipped)
    /\ result.sections # <<>>

\* Every unit of the file is a heading: every line the primary reader hands
\* over, or every paragraph with text (by its style or by is_heading).
OnlyHeadings(f) ==
    IF f.kind = "pdf"
    THEN /\ NoPageRaises("pymupdf", f.pages)
         /\ \A i \in 1..Len(Delivered("pymupdf", f.pages)) :
               is_heading(Delivered("pymupdf", f.pages)[i])
    ELSE \A i \in 1..Len(f.paras) :
             \/ Strip(f.paras[i].text) = <<>>
             \/ StartsAt(f.paras[i].style, 1, HeadingStyle)
             \/ is_heading(Strip(f.paras[i].text))

\* C5: a section is opened with empty content and is emitted only if a later
\* content line was retained under it, so a heading followed by no retained
\* content line never produces an emitted section. Stated for the primary
\* page-description builder and the word-processor builder on the inputs
\* whose units are all headings: they emit no section.
C5_HeadingsAloneEmitNothing ==
    (/\ Returned({"extract_with_pymupdf", "extract_docx_content"})
     /\ OnlyHeadings(file)) =>
        result.sections = <<>>

\* The units a title can be taken from: the lines a reader hands over, the
\* paragraphs' texts, the shapes' and title shapes' texts, all stripped.
InputUnits(f) ==
    IF f.kind = "pdf"
    THEN UNION {{Delivered(r, f.pages)[i] : i \in 1..Len(Delivered(r, f.pages))} :
                   r \in {"pymupdf", "pdfplumber"}}
    ELSE IF f.kind = "docx"
    THEN {Strip(f.paras[i].text) : i \in 1..Len(f.paras)}
    ELSE UNION {{Strip(f.slides[n].shapes[k]) : k \in 1..Len(f.slides[n].shapes)}
                   \cup {Strip(f.slides[n].title)} : n \in 1..Len(f.slides)}

\* The placeholder titles: the parse-error title of the primary reader, and
\* the default title of a slide whose title shape is missing or blank.
Placeholders(f) ==
    IF f.kind = "pdf" THEN {ParseErrorTitle}
    ELSE IF f.kind = "docx" THEN {}
    ELSE {DefaultSlideTitle(n - 1) :
             n \in {m \in 1..Len(f.slides) :
                       ~f.slides[m].has_title \/ Strip(f.slides[m].title) = <<>>}}

\* C6: every section a Section Builder emits has a non-empty title: a
\* non-empty trimmed unit of the input, or a placeholder (the parse-error
\* title, or the default title of a slide without usable title text).
C6_TitlesNonEmpty ==
    Returned(BuilderCalls) =>
        \A i \in 1..Len(result.sections) :
            /\ result.sections[i].title # <<>>
            /\ Strip(result.sections[i].title) = result.sections[i].title
            /\ result.sections[i].title \in InputUnits(file) \cup Placeholders(file)

\* C6 happens: the slide-deck builder has emitted a section under the
\* default title of a slide whose title shape is blank.
C6_Witness ==
    /\ call = "extract_pptx_content"
    /\ Len(file.slides) = 1
    /\ file.slides[1].has_title /\ Strip(file.slides[1].title) = <<>>
    /\ Len(result.sections) = 1
    /\ result.sections[1].title = DefaultSlideTitle(0)

\* The number of sections of the documents before document d, and of all.
RECURSIVE SectionsBefore(_, _)
SectionsBefore(docs, d) ==
    IF d <= 1 THEN 0
    ELSE SectionsBefore(docs, d - 1) + Len(docs[d - 1].sections)

TotalSections(docs) == SectionsBefore(docs, Len(docs) + 1)

\* The step is a run of MainWindow.generate_knowledge_tree with documents held.
TreeGenerated == documents # <<>> /\ GenerateKnowledgeTree

\* C7: generate_knowledge_tree returns a flat list with one node per section
\* of every document, in document-then-section order (as many nodes as the
\* documents have sections, equal titles neither merged nor dropped), each
\* node with the section's title, the section's content lines joined with a
\* newline, and no children.
C7_TreeIsFlat ==
    [][TreeGenerated =>
          /\ Len(knowledge_tree') = TotalSections(documents)
          /\ \A d \in 1..Len(documents) :
                \A n \in 1..Len(documents[d].sections) :
                    knowledge_tree'[SectionsBefore(documents, d) + n] =
                        [title |-> documents[d].sections[n].title,
                         content |-> Str(Join(documents[d].sections[n].content,
                                              <<"\n">>)),
                         children |-> <<>>]]_vars

\* C7 happens: the tree of two documents with two and three sections has
\* been generated, five nodes.
C7_Witness ==
    /\ status = Status("tree_generated", <<>>)
    /\ Len(documents) = 2
    /\ Len(documents[1].sections) = 2
    /\ Len(documents[2].sections) = 3
    /\ Len(knowledge_tree) = 5

\* C8: every node of the generated tree carries the path of the source file
\* of the document its section came from, as show_preview reads it back from
\* the node.
C8_NodesCarryFilepath ==
    [][TreeGenerated =>
          /\ Len(knowledge_tree') = TotalSections(documents)
          /\ \A d \in 1..Len(documents) :
                \A n \in 1..Len(documents[d].sections) :
                    NodeFilepath(knowledge_tree'[SectionsBefore(documents, d) + n])
                        = documents[d].filepath]_vars

\* C9: extract_pdf_content returns the primary reader's document when the
\* primary returns one with at least one section whose first section has
\* content; when the primary raises (and so returns None) or returns a
\* document with no sections or with a first section without content, it
\* returns what the secondary reader's extraction returns for the file.
C9_PrimaryElseSecondary ==
    call = "extract_pdf_content" =>
        result =
            IF /\ extract_with_pymupdf(file) # None
               /\ extract_with_pymupdf(file).sections # <<>>
               /\ extract_with_pymupdf(file).sections[1].content # <<>>
            THEN extract_with_pymupdf(file)
            ELSE extract_with_pdfplumber(file)

\* C9 happens: the primary returned a document without sections and
\* extract_pdf_content returned the secondary's, which has one.
C9_Witness ==
    /\ call = "extract_pdf_content"
    /\ extract_with_pymupdf(file) # None
    /\ extract_with_pymupdf(file).sections = <<>>
    /\ result # None
    /\ result.sections # <<>>

\* Neither reader can open the file f: fitz.open and pdfplumber.open raise.
BothReadersRaise(f) ==
    /\ LowerStr(SplitExt(f.path)) = ExtPdf
    /\ ~f.data.fitz_open /\ ~f.data.plumber_open

\* C10: when both readers raise for a file, extract_pdf_content ends without
\* a document (None), and process_file skips the file: the status reports an
\* error and the documents held are unchanged, none appended.
C10_FailedFileSkipped ==
    [][\A f \in DiskFiles :
          (BothReadersRaise(f) /\ UploadFile(f)) =>
              /\ extract_pdf_content(f.data) = None
              /\ status'.kind = "error"
              /\ documents' = documents]_vars

\* C10 happens: with one document held, a file that neither reader opens
\* has been uploaded and reported.
C10_Witness ==
    /\ Len(file_list) = 2
    /\ Len(documents) = 1
    /\ status = Status("error", <<"TypeError">>)

\* The primary reader is at the head of the page loop and the next page's
\* handling raises.
FailingPageNext ==
    /\ pc = "page" /\ reader = "pymupdf"
    /\ page_num < Len(file.pages)
    /\ file.pages[page_num + 1].fitz = "raise"

SkippedFile(f) ==
    \/ LowerStr(SplitExt(f.path)) \notin {ExtPdf, ExtDocx, ExtPptx}
    \/ LowerStr(SplitExt(f.path)) \in {ExtDocx, ExtPptx} /\ f.data = Unreadable
    \/ BothReadersRaise(f)

\* The number of files of the batch that are not skipped.
RECURSIVE Ingested(_)
Ingested(files) ==
    IF files = <<>> THEN 0
    ELSE (IF SkippedFile(Head(files)) THEN 0 ELSE 1) + Ingested(Tail(files))

\* C12: a file with an unsupported extension, or whose extraction raises,
\* appends no document, gets a diagnostic status message, and leaves the
\* documents held unchanged, and the other files of the same batch are still
\* processed: after a batch the documents held before are a prefix of the
\* documents, one document was appended per file that is not skipped, and
\* when the last file of the batch is skipped the status is its diagnostic.
C12_SkippedFileReported ==
    [][\A files \in Batches :
          (files # <<>> /\ UploadFiles(files)) =>
              /\ Len(documents') = Len(documents) + Ingested(files)
              /\ SubSeq(documents', 1, Len(documents)) = documents
              /\ SkippedFile(files[Len(files)]) => status'.kind = "error"]_vars

\* The argument is None, the empty text or a text of whitespace only.
BlankArgument == input = None \/ Strip(input.str) = <<>>

\* C13: for the empty text, a text of whitespace only and None, is_heading
\* and is_concept_content both return false, and neither raises.
C13_BlankIsNeither ==
    (applied \in {"is_heading", "is_concept_content"} /\ BlankArgument)
        => answer = Returns(FALSE)

\* C14: clean_content is idempotent: cleaning what clean_content returned
\* returns the same text.
C14_CleanIdempotent ==
    applied = "clean_content twice" => answer = CleanContentCall(input)

\* C15: clean_content(None) and clean_content("") return the empty string
\* and do not raise.
C15_CleanOfNothing ==
    (applied = "clean_content" /\ (input = None \/ input = Str(<<>>)))
        => answer = Returns(<<>>)

\* clean_content was called on None and returned the empty string.
C15_Witness ==
    applied = "clean_content" /\ input = None /\ answer = Returns(<<>>)

\* C16: is_heading is false for every text of 50 characters or more that
\* does not match the numbered-section pattern.
C16_LongTextNoHeading ==
    (/\ applied = "is_heading" /\ input # None
     /\ Len(input.str) >= HeadingKeywordLen
     /\ ~NumberedHeading(input.str))
        => answer = Returns(FALSE)

\* is_heading was called on a text of exactly 50 characters that holds a
\* heading keyword and no section number, and returned false.
C16_Witness ==
    /\ applied = "is_heading" /\ input # None
    /\ Len(input.str) = HeadingKeywordLen
    /\ \E kw \in heading_keywords : Contains(input.str, kw)
    /\ ~NumberedHeading(input.str)
    /\ answer = Returns(FALSE)

\* C17: in every state of a session, after uploads, generations of the
\* tree, summary passes, node edits and node deletions, every node of the
\* knowledge tree, and every node kept as data of a tree item, has no
\* children.
C17_ChildrenEmpty ==
    /\ \A i \in 1..Len(knowledge_tree) : knowledge_tree[i].children = <<>>
    /\ \A i \in 1..Len(tree_items) : tree_items[i].data.children = <<>>

\* After a summary pass a node was edited: the tree holds a node with the
\* title and content typed in the dialog next to a node the summary pass
\* found no key point for.
C17_Witness ==
    /\ status = Status("node_updated", <<>>)
    /\ tree_ops = MaxTreeOps
    /\ \E i, j \in 1..Len(knowledge_tree) :
          /\ knowledge_tree[i].title = TitleTyped
          /\ knowledge_tree[i].content = Str(ContentTyped)
          /\ knowledge_tree[j].content = Str(NoContentText)

\* C18: every run of MainWindow.generate_knowledge_tree with documents held
\* sets the tree to what the assembler returns for the documents held,
\* whatever the tree was before: no node edit, node deletion or summary
\* pass survives, and the tree widget shows the new tree.
C18_RebuiltFromDocuments ==
    [][TreeGenerated =>
          /\ knowledge_tree' = generate_knowledge_tree(documents)
          /\ tree_items' = TreeItems(generate_knowledge_tree(documents))]_vars

\* The tree was generated again after summary passes, edits or deletions
\* had changed it, and holds one node per section of the documents.
C18_Witness ==
    /\ status = Status("tree_generated", <<>>)
    /\ tree_ops = MaxTreeOps
    /\ Len(knowledge_tree) = TotalSections(documents)
    /\ Len(knowledge_tree) > 1

\* C19: for every knowledge tree with at least one node, the text made by
\* prepare_content_for_ai, parsed back unchanged by parse_ai_response, gives
\* a tree with as many nodes.
C19_RoundTripKeepsCount ==
    (applied = "parse_ai_response" /\ input # <<>>)
        => Len(answer.value) = Len(input)

\* The state of the line loop of reader r after the lines ls of a page,
\* entered in state st.
LinesBy(r, st, ls) == IF r = "pymupdf" THEN PdfLines(st, ls) ELSE PlumberLines(st, ls)

\* The state of reader r after the pages ps.
PagesBy(r, ps) ==
    IF r = "pymupdf" THEN PymupdfPages(BuilderState(<<>>, None, FALSE), ps, 0)
    ELSE PlumberPages(BuilderState(<<>>, None, FALSE), ps, 0)

\* Holds(before, after) for the states before and after every rejected
\* heading among the lines ls of a page that the line loop of reader r
\* enters in state st.
AtPageDiscards(r, st, ls, Holds(_, _)) ==
    \A k \in 1..Len(ls) :
        (Strip(ls[k]) # <<>> /\ RejectedHeading(Strip(ls[k])))
            => Holds(LinesBy(r, st, SubSeq(ls, 1, k - 1)),
                     LinesBy(r, st, SubSeq(ls, 1, k)))

\* The state in which the line loop is entered after the pages before.
PageEntered(st) == BuilderState(st.sections, st.current_section, FALSE)

\* The same for every page of the file that reader r gets text for.
AtPdfDiscards(r, pages, Holds(_, _)) ==
    \A p \in 1..Len(pages) :
        (~ReaderRaises(r, pages[p]) /\ ReaderText(r, pages[p]) # <<>>)
            => AtPageDiscards(r, PageEntered(PagesBy(r, SubSeq(pages, 1, p - 1))),
                              PageLines(ReaderText(r, pages[p])), Holds)

\* The same for the paragraphs of a word-processor file.
AtDocxDiscards(paras, Holds(_, _)) ==
    \A k \in 1..Len(paras) :
        (Strip(paras[k].text) # <<>> /\ RejectedHeading(Strip(paras[k].text)))
            => Holds(DocxParas(PlainState(<<>>, None), SubSeq(paras, 1, k - 1)),
                     DocxParas(PlainState(<<>>, None), SubSeq(paras, 1, k)))

\* The same for the shapes of the slides of a slide-deck file, in the
\* structural pass.
AtPptxDiscards(slides, Holds(_, _)) ==
    \A n \in 1..Len(slides) :
        \A k \in 1..Len(slides[n].shapes) :
            (/\ Strip(slides[n].shapes[k]) # <<>>
             /\ RejectedHeading(Strip(slides[n].shapes[k])))
                => Holds(PptxShapes(PptxSlides(PlainState(<<>>, None),
                                               SubSeq(slides, 1, n - 1)),
                                    SubSeq(slides[n].shapes, 1, k - 1)),
                         PptxShapes(PptxSlides(PlainState(<<>>, None),
                                               SubSeq(slides, 1, n - 1)),
                                    SubSeq(slides[n].shapes, 1, k)))

\* The step dropped the open section: the sections are as before and no
\* section is open.
Dropped(before, after) ==
    after.sections = before.sections /\ after.current_section = None

\* The section open before the step, if it held content, is no section of
\* the document returned.
NotReturned(before, after) ==
    (before.current_section # None /\ before.current_section.content # <<>>)
        => \A i \in 1..Len(result.sections) :
               result.sections[i] # before.current_section

\* C20 as it can be held: in the line loops of both page-description
\* readers, in the paragraph loop of the word-processor builder and in the
\* structural pass of the slide-deck builder, a unit that is a heading and
\* fails is_concept_content drops the open section: the section is not added
\* to the sections and no section is open afterwards, whether or not it
\* holds content lines.
C20_RejectedHeadingDrops ==
    call # "none" =>
        CASE file.kind = "pdf" ->
                 /\ AtPdfDiscards("pymupdf", file.pages, Dropped)
                 /\ AtPdfDiscards("pdfplumber", file.pages, Dropped)
          [] file.kind = "docx" -> AtDocxDiscards(file.paras, Dropped)
          [] file.kind = "pptx" -> AtPptxDiscards(file.slides, Dropped)

\* The slide-deck builder was called on slides whose structural pass drops
\* the section "yin-yan" with its one content line at the rejected heading
\* and emits no section.
C20_Witness ==
    /\ call = "extract_pptx_content"
    /\ file.slides = ClosedSlides
    /\ LastAdded(PptxSlides(PlainState(<<>>, None), file.slides)) = <<>>
    /\ result # None

\* C20: in every builder, the section open when a unit that is a heading
\* and fails is_concept_content arrives never appears in the output, even if
\* it holds content lines.
C20_DroppedNeverReturned ==
    (call # "none" /\ result # None) =>
        CASE call = "extract_with_pymupdf" ->
                 AtPdfDiscards("pymupdf", file.pages, NotReturned)
          [] call = "extract_with_pdfplumber" /\ file.plumber_open ->
                 AtPdfDiscards("pdfplumber", file.pages, NotReturned)
          [] call = "extract_docx_content" -> AtDocxDiscards(file.paras, NotReturned)
          [] call = "extract_pptx_content" -> AtPptxDiscards(file.slides, NotReturned)
          [] OTHER -> TRUE

\* ---------------------------------------------------- consecutive headings

\* The lines of the current page that the line loop has been through.
PageDone ==
    SubSeq(PageLines(ReaderText(reader, file.pages[page_num + 1])), 1,
           Len(PageLines(ReaderText(reader, file.pages[page_num + 1]))) - Len(lines))

\* The last line of ls that is not blank, stripped; <<>> when there is none.
RECURSIVE LastNonEmpty(_)
LastNonEmpty(ls) ==
    IF ls = <<>> THEN <<>>
    ELSE IF Strip(ls[Len(ls)]) # <<>> THEN Strip(ls[Len(ls)])
    ELSE LastNonEmpty(SubSeq(ls, 1, Len(ls) - 1))

\* The line loop is at a line that is an accepted heading, and the non-empty
\* line before it on the page was an accepted heading too.
SecondHeadingNext ==
    /\ pc = "line" /\ lines # <<>>
    /\ Strip(Head(lines)) # <<>> /\ AcceptedHeading(Strip(Head(lines)))
    /\ LastNonEmpty(PageDone) # <<>> /\ AcceptedHeading(LastNonEmpty(PageDone))

\* C21: in both page-description builders, when two consecutive non-empty
\* lines of a page are both headings that pass is_concept_content, the
\* section the first one opened is open and empty when the second arrives;
\* the step for the second adds nothing to the sections and leaves open a
\* section titled with the second line, with no content. The section of the
\* first line is thereby gone without having been emitted.
C21_SecondHeadingReplaces ==
    [][(SecondHeadingNext /\ Line) =>
          /\ current_section = [title |-> LastNonEmpty(PageDone), content |-> <<>>]
          /\ sections' = sections
          /\ current_section' = [title |-> Strip(Head(lines)), content |-> <<>>]]_vars

\* The line loop has just been through two consecutive accepted headings of
\* a page, and the open section carries the second one's title.
C21_Witness ==
    /\ pc = "line" /\ Len(PageDone) >= 2
    /\ AcceptedHeading(Strip(PageDone[Len(PageDone)]))
    /\ AcceptedHeading(Strip(PageDone[Len(PageDone) - 1]))
    /\ current_section = [title |-> Strip(PageDone[Len(PageDone)]), content |-> <<>>]

\* ----------------------------------------- page errors of the secondary reader

\* The secondary reader is at the head of its page loop, before a page whose
\* extract_text raises.
PlumberPageRaisesNext ==
    /\ reader = "pdfplumber" /\ pc = "page" /\ page_num < Len(file.pages)
    /\ file.pages[page_num + 1].plumber # "ok"

\* C22: in the secondary reader, the step for a page whose extract_text
\* raises neither ends the run nor touches the sections or the open section
\* (no placeholder line). After a color-space error the lines that
\* extract_text_simple obtained are the page's lines; after any other error,
\* or when extract_text_simple raises too, the page has no lines and the loop
\* is at the next page.
C22_PlumberPageErrorSkips ==
    [][PlumberPageRaisesNext =>
          /\ pc' # "done" /\ result' = result /\ reader' = reader
          /\ sections' = sections
          /\ current_section' = current_section
          /\ IF file.pages[page_num + 1].plumber = "color"
             THEN /\ pc' = "line" /\ page_num' = page_num
                  /\ lines' = PageLines(file.pages[page_num + 1].text)
             ELSE /\ pc' = "page" /\ page_num' = page_num + 1
                  /\ lines' = lines /\ skip_section' = skip_section]_vars

\* The secondary reader has passed a page on which extract_text raised
\* another error than a color-space one, with a section open that an earlier
\* page opened.
C22_Witness ==
    /\ reader = "pdfplumber" /\ pc = "page" /\ page_num >= 2
    /\ file.pages[page_num].plumber = "other"
    /\ file.pages[page_num].text # <<>>
    /\ current_section # None
    /\ current_section.title = Strip(file.pages[1].text)

\* ------------------------------------------------- the classifier, exactly

\* A text that begins with one or more digits, then one of the markers
\* dun-hao (u3001), "." and the full-width stop (uFF0E), then a whitespace
\* character.
MarkedNumber(text) ==
    LET b == RunEnd(text, 1, "digit")
    IN  /\ b > 1 /\ b + 1 <= Len(text)
        /\ text[b] \in {"u3001", ".", "uFF0E"}
        /\ IsSpace(text[b + 1])

\* C23: is_heading(text) is true exactly when the text is shorter than 50
\* characters and contains a heading keyword, or is shorter than 30
\* characters and begins with digits, one of the markers u3001 . uFF0E and a
\* whitespace character; it is false for every other text.
C23_HeadingExactly ==
    (applied = "is_heading" /\ input # None) =>
        answer = Returns(
            \/ /\ Len(input.str) < HeadingKeywordLen
               /\ \E kw \in heading_keywords : Contains(input.str, kw)
            \/ /\ Len(input.str) < HeadingNumberLen
               /\ MarkedNumber(input.str))

\* The three rejecting tests of a text, the first and the third on the text
\* as given (Raw) or on the text without surrounding whitespace (Stripped).
StartsNonConcept(t) == \E kw \in non_concept_keywords : StartsAt(t, 1, kw)
HoldsNonConcept(text) == \E kw \in non_concept_keywords : Contains(text, kw)
HoldsKeyPoint(text) == Contains(text, KeyPoint1) \/ Contains(text, KeyPoint2)
NumberedPlain(t, text) ==
    /\ RunEnd(t, 1, "digit") > 1
    /\ RunEnd(t, 1, "digit") + 1 <= Len(t)
    /\ t[RunEnd(t, 1, "digit")] = "."
    /\ IsSpace(t[RunEnd(t, 1, "digit") + 1])
    /\ ~HoldsKeyPoint(text)
Rejected(t, text) ==
    \/ StartsNonConcept(t)
    \/ HoldsNonConcept(text) /\ ~is_heading(text)
    \/ NumberedPlain(t, text)

\* C24 as it can be held: is_concept_content(text) is false exactly when
\* the text without surrounding whitespace starts with a non-concept keyword,
\* or the text contains a non-concept keyword while is_heading(text) is false,
\* or the text without surrounding whitespace begins with digits, "." and a
\* whitespace character while the text contains no key-point keyword;
\* otherwise it is true.
C24_ConceptExactlyStripped ==
    (applied = "is_concept_content" /\ input # None) =>
        /\ answer.outcome = "return"
        /\ answer.value = ~Rejected(Strip(input.str), input.str)

\* is_concept_content was called on a numbered line that contains a
\* key-point keyword and no non-concept keyword ("1. yao-dian"), and answered
\* True.
C24_Witness ==
    /\ applied = "is_concept_content"
    /\ input = Str(<<"1", ".", " ">> \o KeyPoint2)
    /\ answer = Returns(TRUE)

\* C24: is_concept_content(text) is false exactly when text starts with a
\* non-concept keyword, or contains one while is_heading(text) is false, or
\* begins with digits, "." and whitespace while containing no key-point
\* keyword; otherwise it is true.
C24_ConceptExactly ==
    (applied = "is_concept_content" /\ input # None) =>
        /\ answer.outcome = "return"
        /\ answer.value = ~Rejected(input.str, input.str)

\* ------------------------------------------------- node edits and deletions

\* C25: a run of edit_selected_node with one item selected, at position i,
\* and the dialog accepted replaces knowledge_tree[i] by a node with the
\* title and the content left in the dialog and the children of the node
\* edited; the tree keeps its length and every other node, and the documents
\* are unchanged. A run with the dialog cancelled changes nothing.
C25_EditReplacesOneNode ==
    [][\A selected \in Selections(tree_items), accepted \in BOOLEAN :
          \A title \in UNION {TitlesLeft(tree_items[i].data) : i \in selected},
             content \in UNION {ContentsLeft(tree_items[i].data) : i \in selected} :
              EditSelectedNode(selected, accepted, title, content) =>
                  IF accepted /\ Cardinality(selected) = 1
                  THEN \A i \in selected :
                          /\ i <= Len(knowledge_tree)
                          /\ Len(knowledge_tree') = Len(knowledge_tree)
                          /\ knowledge_tree'[i] =
                                 [title |-> title, content |-> Str(content),
                                  children |-> knowledge_tree[i].children]
                          /\ \A j \in 1..Len(knowledge_tree) :
                                 j # i => knowledge_tree'[j] = knowledge_tree[j]
                          /\ documents' = documents
                  ELSE UNCHANGED <<knowledge_tree, tree_items, documents, status,
                                   file_list>>]_vars

\* A node of a tree of several nodes was edited: it carries the title and
\* the content typed, the tree item shows it, and another node of the tree
\* is still one the assembler made from the documents.
C25_Witness ==
    /\ status = Status("node_updated", <<>>)
    /\ Len(knowledge_tree) >= 2
    /\ \E i, j \in 1..Len(knowledge_tree) :
          /\ i # j
          /\ knowledge_tree[i] =
                 [title |-> TitleTyped, content |-> Str(ContentTyped), children |-> <<>>]
          /\ tree_items[i].data = knowledge_tree[i]
          /\ j <= Len(generate_knowledge_tree(documents))
          /\ knowledge_tree[j] = generate_knowledge_tree(documents)[j]

\* The elements of list at the positions from i on that are not in selected,
\* in their order.
RECURSIVE Remaining(_, _, _)
Remaining(list, i, selected) ==
    IF i > Len(list) THEN <<>>
    ELSE (IF i \in selected THEN <<>> ELSE <<list[i]>>)
             \o Remaining(list, i + 1, selected)

\* The tree widget and the knowledge tree are aligned: as many items as
\* nodes, and the k-th item holds the k-th node.
Aligned ==
    /\ Len(tree_items) = Len(knowledge_tree)
    /\ \A k \in 1..Len(knowledge_tree) : tree_items[k].data = knowledge_tree[k]

\* C26: a run of delete_selected_node with items selected and the question
\* answered with Yes leaves in the knowledge tree exactly the nodes at the
\* positions not selected, in their order and as they were, and leaves the
\* documents unchanged; and in every state of a session, after any sequence
\* of tree generations, summary passes, edits and deletions, the tree widget
\* and the knowledge tree are aligned.
C26_DeleteRemovesSelected ==
    /\ []Aligned
    /\ [][\A selected \in Selections(tree_items) :
              (selected # {} /\ DeleteSelectedNode(selected, TRUE)) =>
                  /\ knowledge_tree' = Remaining(knowledge_tree, 1, selected)
                  /\ Len(knowledge_tree') = Len(knowledge_tree) - Cardinality(selected)
                  /\ documents' = documents]_vars

\* Two of several nodes were deleted: the first item left holds the first
\* node left, under the number it had before the deletion.
C26_Witness ==
    /\ status = Status("nodes_deleted", <<"2">>)
    /\ Len(knowledge_tree) >= 1
    /\ tree_items[1].data = knowledge_tree[1]
    /\ tree_items[1].text = TreeItem(2, knowledge_tree[1]).text

\* ------------------------------------------------------------ the documents

\* The steps of the handlers that work on the knowledge tree.
TreeStep ==
    \/ GenerateKnowledgeTree
    \/ ProcessWithAI
    \/ \E selected \in Selections(tree_items), accepted \in BOOLEAN :
          \E title \in UNION {TitlesLeft(tree_items[i].data) : i \in selected},
             content \in UNION {ContentsLeft(tree_items[i].data) : i \in selected} :
              EditSelectedNode(selected, accepted, title, content)
    \/ \E selected \in Selections(tree_items), yes \in BOOLEAN :
          DeleteSelectedNode(selected, yes)
    \/ \E chosen \in BOOLEAN, outcome \in ExportOutcomes :
          ExportDocument(chosen, outcome)
    \/ \E i \in 1..MaxFiles * 3 : ShowPreview(i)

\* The steps of upload_files, and of delete_selected_files and
\* clear_all_files.
IngestionStep == \E files \in Batches : UploadFiles(files)
RemovalStep ==
    \/ \E selected \in Selections(file_list), yes \in BOOLEAN :
          DeleteSelectedFiles(selected, yes)
    \/ \E yes \in BOOLEAN : ClearAllFiles(yes)

\* short is what is left of long when some of its elements are taken out.
RECURSIVE IsSubsequence(_, _)
IsSubsequence(short, long) ==
    IF short = <<>> THEN TRUE
    ELSE IF long = <<>> THEN FALSE
    ELSE IF Head(short) = Head(long) THEN IsSubsequence(Tail(short), Tail(long))
    ELSE IsSubsequence(short, Tail(long))

\* C27: a step that changes the documents list or a document in it is no
\* step of tree generation, summary pass, node edit, node deletion, export
\* or preview; it is an upload, after which the documents held
\* before are the first ones of the list, unchanged, or a file deletion or
\* clearing, after which the list holds some of the documents held before,
\* unchanged and in their order.
C27_DocumentsOnlyAppendedOrRemoved ==
    [][documents' # documents =>
          /\ ~TreeStep
          /\ \/ /\ Len(documents') > Len(documents)
                /\ SubSeq(documents', 1, Len(documents)) = documents
                /\ IngestionStep
             \/ /\ Len(documents') < Len(documents)
                /\ IsSubsequence(documents', documents)
                /\ RemovalStep]_vars

\* A tree that summary passes, edits or deletions have changed was
\* exported while documents are held, after a second file was uploaded.
C27_Witness ==
    /\ status = Status("export", "written")
    /\ tree_ops = MaxTreeOps
    /\ Len(documents) = MaxFiles
    /\ knowledge_tree # generate_knowledge_tree(documents)

\* --------------------------------------------------- heading-style paragraphs

\* The state of the paragraph loop of the word-processor builder after the
\* first k paragraphs.
DocxAfter(paras, k) == DocxParas(PlainState(<<>>, None), SubSeq(paras, 1, k))

\* Paragraph k is not blank and its style name starts with "Heading".
StyledHeading(paras, k) ==
    /\ Strip(paras[k].text) # <<>>
    /\ StartsAt(paras[k].style, 1, HeadingStyle)

\* C28: in the word-processor builder, for every non-empty paragraph whose
\* style name starts with "Heading", whatever is_heading answers for its
\* text: if the text passes is_concept_content, the open section is added to
\* the sections when it has content and a section titled with the text is
\* opened (its first content line being the text); if it fails, the sections
\* stay as they are and no section is open.
C28_HeadingStyleIsHeading ==
    (call = "extract_docx_content" /\ file.kind = "docx") =>
        \A k \in 1..Len(file.paras) :
            StyledHeading(file.paras, k) =>
                IF is_concept_content(Strip(file.paras[k].text))
                THEN /\ DocxAfter(file.paras, k).sections =
                            AppendIfContent(DocxAfter(file.paras, k - 1).sections,
                                            DocxAfter(file.paras, k - 1).current_section)
                     /\ DocxAfter(file.paras, k).current_section =
                            [title |-> Strip(file.paras[k].text),
                             content |-> <<Strip(file.paras[k].text)>>]
                ELSE /\ DocxAfter(file.paras, k).sections =
                            DocxAfter(file.paras, k - 1).sections
                     /\ DocxAfter(file.paras, k).current_section = None

\* The word-processor builder was called on two paragraphs, the second one
\* in a heading style with a text that is no heading by is_heading and
\* passes is_concept_content; it returned the section of the first
\* paragraph and a section titled with the second.
C28_Witness ==
    /\ call = "extract_docx_content" /\ file.kind = "docx"
    /\ Len(file.paras) = 2
    /\ StyledHeading(file.paras, 2)
    /\ ~is_heading(Strip(file.paras[2].text))
    /\ is_concept_content(Strip(file.paras[2].text))
    /\ result # None
    /\ Len(result.sections) = 2
    /\ result.sections[2].title = Strip(file.paras[2].text)

\* ------------------------------------------------------- slide titles

\* Slide n has a title shape with text, none of its other shapes is a
\* heading, and at least one of them passes is_concept_content.
TitledPlainSlide(slides, n) ==
    /\ slides[n].has_title /\ Strip(slides[n].title) # <<>>
    /\ \A k \in 1..Len(slides[n].shapes) : ~is_heading(Strip(slides[n].shapes[k]))
    /\ SlideContent(slides[n].shapes) # <<>>

\* C29: the slide-deck builder returns, for every slide that has a title
\* shape with text and whose content it collects, a section titled with the
\* title shape's text that holds the slide's content, also when the title is
\* no heading by is_heading and whichever pass built the result.
C29_TitleShapeTitlesSection ==
    (call = "extract_pptx_content" /\ file.kind = "pptx" /\ result # None) =>
        \A n \in 1..Len(file.slides) :
            TitledPlainSlide(file.slides, n) =>
                \E i \in 1..Len(result.sections) :
                    /\ result.sections[i].title = Strip(file.slides[n].title)
                    /\ \A k \in 1..Len(SlideContent(file.slides[n].shapes)) :
                           \E m \in 1..Len(result.sections[i].content) :
                               result.sections[i].content[m] =
                                   SlideContent(file.slides[n].shapes)[k]

\* ------------------------------------------------------- the fallback pass

\* The sections the structural pass emitted for the slides.
Structural(slides) == LastAdded(PptxSlides(PlainState(<<>>, None), slides))

\* The non-title shape texts of a slide, stripped, that are not empty and
\* pass is_concept_content, in shape order.
Passes(t) == t # <<>> /\ is_concept_content(t)
PassingTexts(slide) ==
    SelectSeq([k \in 1..Len(slide.shapes) |-> Strip(slide.shapes[k])], Passes)

\* The slides with at least one passing text, and the number of them up to
\* slide n.
ContentSlides(slides) == {n \in 1..Len(slides) : PassingTexts(slides[n]) # <<>>}
Rank(slides, n) == Cardinality({m \in ContentSlides(slides) : m <= n})

\* C30: the slide-deck builder returns the sections of the structural pass
\* when there is at least one, with nothing added; and when there is none,
\* it returns, in slide order, one section for every slide that has at least
\* one non-title shape text passing is_concept_content and none for any
\* other slide, the section's content being exactly the slide's passing
\* texts in shape order and its title the slide's title.
C30_FallbackIffNoStructure ==
    (call = "extract_pptx_content" /\ file.kind = "pptx" /\ result # None) =>
        IF Structural(file.slides) # <<>>
        THEN result.sections = Structural(file.slides)
        ELSE /\ Len(result.sections) = Cardinality(ContentSlides(file.slides))
             /\ \A n \in ContentSlides(file.slides) :
                    result.sections[Rank(file.slides, n)] =
                        [title |-> SlideTitle(file.slides[n], n - 1),
                         content |-> PassingTexts(file.slides[n])]

\* The slide-deck builder was called on two slides for which the structural
\* pass emits no section; the first has no passing text, and the one section
\* returned is the second slide's.
C30_Witness ==
    /\ call = "extract_pptx_content" /\ file.kind = "pptx"
    /\ Len(file.slides) = 2
    /\ Structural(file.slides) = <<>>
    /\ ContentSlides(file.slides) = {2}
    /\ file.slides[1].shapes # <<>>
    /\ result # None
    /\ result.sections = <<[title |-> Strip(file.slides[2].title),
                            content |-> PassingTexts(file.slides[2])]>>

\* ------------------------------------------------------- the cleaning pass

\* The paragraphs with clean_content applied to the text of each.
CleanedParas(paras) ==
    [k \in 1..Len(paras) |-> Para(clean_content(paras[k].text), paras[k].style)]

\* C31: the page-description builders work on the lines of
\* clean_content(page text); the word-processor builder classifies
\* clean_content(paragraph text), so that it returns what it returns for
\* the cleaned paragraphs; the slide-deck builder works on the stripped
\* shape texts as they are.
C31_CleanedBeforeClassifying ==
    (call # "none" /\ result # None) =>
        CASE call = "extract_with_pymupdf" ->
                 result.sections = LastAdded(PagesBy("pymupdf", file.pages))
          [] call = "extract_docx_content" ->
                 result.sections =
                     LastAdded(DocxParas(PlainState(<<>>, None), CleanedParas(file.paras)))
          [] call = "extract_pptx_content" ->
                 result.sections =
                     StructuralOrFallback(Structural(file.slides), file.slides)
          [] OTHER -> TRUE

\* ------------------------------------------------------------ numbered lines

\* A line shorter than 30 characters of the form digits, ".", whitespace,
\* text, that contains no key-point keyword.
NumberedPlainLine(t) ==
    /\ Len(t) < HeadingNumberLen
    /\ NumberedPlain(t, t)
    /\ RunEnd(t, 1, "digit") + 1 < Len(t)

\* C32: a line shorter than 30 characters of the form digits, ".",
\* whitespace, text without key-point keyword is a heading by is_heading
\* and fails is_concept_content; in the line loop of both page-description
\* builders the step for such a line opens no section: the sections stay as
\* they are, no section is open afterwards and skip_section is True.
C32_NumberedLineRejected ==
    [][(Line /\ NumberedPlainLine(Strip(Head(lines)))) =>
          /\ is_heading(Strip(Head(lines)))
          /\ ~is_concept_content(Strip(Head(lines)))
          /\ sections' = sections
          /\ current_section' = None
          /\ skip_section' = TRUE]_vars

\* The line loop has just been through a numbered line without key-point
\* keyword that arrived while a section with content was open: no section
\* is open, none was added, and the latch is on.
C32_Witness ==
    /\ pc = "line" /\ Len(PageDone) >= 3
    /\ NumberedPlainLine(Strip(PageDone[Len(PageDone)]))
    /\ AcceptedHeading(Strip(PageDone[Len(PageDone) - 2]))
    /\ Strip(PageDone[Len(PageDone) - 1]) # <<>>
    /\ current_section = None /\ skip_section /\ sections = <<>>

\* ------------------------------------------------- the output as subsequence

\* The sections read in output order: each title, then its content lines;
\* every line with the place of its section's title in this reading.
RECURSIVE Flat(_, _)
Flat(secs, at) ==
    IF secs = <<>> THEN <<>>
    ELSE <<[line |-> Head(secs).title, title_at |-> at + 1]>>
             \o [k \in 1..Len(Head(secs).content) |->
                    [line |-> Head(secs).content[k], title_at |-> at + 1]]
             \o Flat(Tail(secs), at + 1 + Len(Head(secs).content))

\* The i-th smallest element of a set of numbers.
Nth(S, i) == CHOOSE x \in S : Cardinality({y \in S : y < x}) = i - 1

\* The reading out is found in the lines d at the places S, in order, with
\* no heading between the place of a title and the place of any of its
\* content lines.
FoundAt(out, d, S) ==
    \A i \in 1..Len(out) :
        /\ d[Nth(S, i)] = out[i].line
        /\ \A p \in (Nth(S, out[i].title_at) + 1)..(Nth(S, i) - 1) : ~is_heading(d[p])

\* The reader whose line loop a call of a page-description builder runs.
ReaderOf ==
    IF call = "extract_with_pdfplumber" /\ file.plumber_open THEN "pdfplumber"
    ELSE "pymupdf"

\* C33: what a page-description builder returns for a file none of whose
\* pages fails, read in output order (each title, then its content lines),
\* is a subsequence of the non-empty stripped lines handed to the line loop,
\* in their order: every line of the output has its own place in the input,
\* the places ascend, and no heading lies between the place of a title and
\* the place of any of its content lines.
C33_OutputIsSubsequence ==
    (/\ call \in {"extract_with_pymupdf", "extract_with_pdfplumber"}
     /\ result # None
     /\ NoPageRaises(ReaderOf, file.pages)) =>
        \E S \in SUBSET (1..Len(Delivered(ReaderOf, file.pages))) :
            /\ Cardinality(S) = Len(Flat(result.sections, 0))
            /\ FoundAt(Flat(result.sections, 0), Delivered(ReaderOf, file.pages), S)

\* The secondary reader returned two sections with the same title from a
\* text of two pages in which that title line occurs twice.
C33_Witness ==
    /\ call = "extract_with_pdfplumber" /\ file.plumber_open /\ result # None
    /\ Len(file.pages) = 2
    /\ Len(result.sections) = 2
    /\ result.sections[1].title = result.sections[2].title
    /\ Len(Delivered("pdfplumber", file.pages)) = Len(Flat(result.sections, 0))

\* ----------------------------------------------- extract_pdf_content's calls

\* The primary reader opens the file f, which has a page, and the text
\* extraction raises on every page.
EveryPageRaises(f) ==
    /\ f.fitz_open /\ f.pages # <<>>
    /\ \A n \in 1..Len(f.pages) : ReaderRaises("pymupdf", f.pages[n])

\* The section titled ParseErrorTitle with one failure line per page.
ParseErrorSection(pages) ==
    [title |-> ParseErrorTitle,
     content |-> [n \in 1..Len(pages) |-> PageFailedLine(n - 1)]]

\* C34: when the text extraction raises on every page inside the primary
\* reader, extract_pdf_content returns a document whose only section is
\* titled ParseErrorTitle and holds one failure line per page, in page
\* order, and the only reader invoked for the file is the primary, once.
C34_AllPagesRaiseKeepsPrimary ==
    (call = "extract_pdf_content" /\ pc = "returned" /\ EveryPageRaises(file)) =>
        /\ result # None
        /\ result.sections = <<ParseErrorSection(file.pages)>>
        /\ invoked = <<"pymupdf">>

\* extract_pdf_content has returned for a file of two pages that both raise
\* in the primary and that the secondary reader could have read.
C34_Witness ==
    /\ call = "extract_pdf_content" /\ pc = "returned" /\ EveryPageRaises(file)
    /\ Len(file.pages) = 2 /\ file.plumber_open
    /\ Len(result.sections[1].content) = 2

\* How often the reader r was invoked.
Invocations(r) == Cardinality({i \in 1..Len(invoked) : invoked[i] = r})

\* The sequences of reader calls extract_pdf_content can make.
PdfContentCalls ==
    {<<"pymupdf">>, <<"pymupdf", "pdfplumber">>, <<"pymupdf", "pdfplumber", "pymupdf">>}

\* Every step taken is taken again and again until the function returns:
\* the code runs on, one statement after the other.
SpecBuilderRuns == SpecBuilder /\ WF_vars(NextBuilder)

\* C35: every call of extract_pdf_content returns; at every moment of it the
\* primary reader has been invoked at most twice and the secondary at most
\* once, the second call of the primary being made only by a secondary that
\* could not open the file; and what is returned after that second call is
\* what the primary returns for the file, which is then no document or a
\* document without sections.
C35_PdfContentReturns ==
    /\ [](call = "extract_pdf_content" =>
             /\ invoked \in PdfContentCalls
             /\ Invocations("pymupdf") <= 2
             /\ Invocations("pdfplumber") <= 1
             /\ (Len(invoked) = 3 => ~file.plumber_open))
    /\ []((call = "extract_pdf_content" /\ pc = "returned" /\ Len(invoked) = 3) =>
             /\ result = extract_with_pymupdf(file)
             /\ (result = None \/ result.sections = <<>>))
    /\ (call = "extract_pdf_content" ~> pc = "returned")

\* extract_pdf_content has returned no document after three reader calls,
\* for a file with a page that neither reader opens.
C35_Witness ==
    /\ call = "extract_pdf_content" /\ pc = "returned"
    /\ invoked = <<"pymupdf", "pdfplumber", "pymupdf">>
    /\ file.pages # <<>>
    /\ result = None

\* ------------------------------------------------- the tree and the documents

\* C36: a run of delete_selected_files with items selected, or of
\* clear_all_files with files listed, in which the question is answered with
\* Yes leaves the knowledge tree and the tree widget empty; and in every
\* state of a session a knowledge tree with nodes comes with at least one
\* document held.
C36_TreeNeedsDocuments ==
    /\ [](knowledge_tree # <<>> => documents # <<>>)
    /\ [][(knowledge_tree # <<>> \/ tree_items # <<>>) =>
              /\ \A selected \in Selections(file_list) :
                     (selected # {} /\ DeleteSelectedFiles(selected, TRUE)) =>
                         knowledge_tree' = <<>> /\ tree_items' = <<>>
              /\ (file_list # <<>> /\ ClearAllFiles(TRUE)) =>
                     knowledge_tree' = <<>> /\ tree_items' = <<>>]_vars

\* One of two listed files was deleted after the tree had been worked on: a
\* document is still held, and the tree is empty.
C36_Witness ==
    /\ status = Status("files_deleted", <<"1">>)
    /\ tree_ops >= 1
    /\ Len(file_list) = 1 /\ Len(documents) = 1
    /\ knowledge_tree = <<>> /\ tree_items = <<>>

\* --------------------------------------------- the file list and the documents

\* How often the name occurs in the list of names.
Occurrences(names, name) == Cardinality({i \in 1..Len(names) : names[i] = name})

\* The base names of the documents' source paths, in the documents' order.
DocumentNames(docs) == [i \in 1..Len(docs) |-> BaseName(docs[i].filepath)]

\* C37: in every state of a session the names shown in the file list and the
\* base names of the source paths of the documents held are the same
\* multiset: every name occurs as often in the one as in the other.
C37_ListNamesDocuments ==
    \A f \in DiskFiles :
        Occurrences(file_list, BaseName(f.path))
            = Occurrences(DocumentNames(documents), BaseName(f.path))

\* ------------------------------------------- units kept under an open section

\* A text unit of the word-processor or slide-deck builder: its stripped
\* text and whether the builder takes it for a heading.
Unit(text, heading) == [text |-> text, heading |-> heading]
NotBlank(unit) == unit.text # <<>>

\* The non-empty units of a word-processor file, in paragraph order.
DocxUnits(paras) ==
    SelectSeq([k \in 1..Len(paras) |->
                  Unit(Strip(paras[k].text),
                       StartsAt(paras[k].style, 1, HeadingStyle)
                           \/ is_heading(Strip(paras[k].text)))],
              NotBlank)

\* The non-empty units of a slide-deck file: the non-title shapes' texts,
\* slide after slide, in shape order.
RECURSIVE PptxUnits(_)
PptxUnits(slides) ==
    IF slides = <<>> THEN <<>>
    ELSE SelectSeq([k \in 1..Len(Head(slides).shapes) |->
                       Unit(Strip(Head(slides).shapes[k]),
                            is_heading(Strip(Head(slides).shapes[k])))],
                   NotBlank)
             \o PptxUnits(Tail(slides))

\* Unit j is an accepted heading.
AcceptedUnit(units, j) == units[j].heading /\ is_concept_content(units[j].text)

\* The last unit of the stretch that begins after unit j and ends before the
\* next heading, accepted or rejected.
StretchEnd(units, j) ==
    IF \A m \in (j + 1)..Len(units) : ~units[m].heading THEN Len(units)
    ELSE (CHOOSE m \in (j + 1)..Len(units) :
              units[m].heading /\ \A x \in (j + 1)..(m - 1) : ~units[x].heading) - 1

\* The texts of the units of the stretch after unit j that pass
\* is_concept_content.
StretchTexts(units, j) ==
    SelectSeq([k \in 1..(StretchEnd(units, j) - j) |-> units[j + k].text],
              is_concept_content)

\* The stretch after unit j ends with the last unit or before an accepted
\* heading: no rejected heading drops the section that unit j opened.
StretchKept(units, j) ==
    StretchEnd(units, j) < Len(units) => AcceptedUnit(units, StretchEnd(units, j) + 1)

\* The sections with content that the accepted headings from unit j on open
\* and no rejected heading drops, each holding the passing units of its
\* stretch, after its own title when the builder puts the title first.
RECURSIVE OpenedSections(_, _, _)
OpenedSections(units, j, title_first) ==
    IF j > Len(units) THEN <<>>
    ELSE (IF /\ AcceptedUnit(units, j)
             /\ StretchKept(units, j)
             /\ (title_first \/ StretchTexts(units, j) # <<>>)
          THEN <<[title |-> units[j].text,
                  content |-> (IF title_first THEN <<units[j].text>> ELSE <<>>)
                                  \o StretchTexts(units, j)]>>
          ELSE <<>>)
             \o OpenedSections(units, j + 1, title_first)

\* C38: in the word-processor builder, and in the slide-deck builder when
\* its structural pass emits a section, a unit is retained only under a
\* section that an accepted heading opened and no later heading closed: the
\* sections returned are those of the accepted headings that no rejected
\* heading follows next, each with the passing units between its heading and
\* the next heading, on whatever slide they are; units before the first
\* accepted heading and units between a rejected heading and the next
\* accepted one are in no section.
C38_RetainedUnderOpenSection ==
    (call # "none" /\ result # None) =>
        CASE call = "extract_docx_content" ->
                 result.sections = OpenedSections(DocxUnits(file.paras), 1, TRUE)
          [] call = "extract_pptx_content" /\ Structural(file.slides) # <<>> ->
                 result.sections = OpenedSections(PptxUnits(file.slides), 1, FALSE)
          [] OTHER -> TRUE

\* The slide-deck builder returned one section for two slides: its heading
\* and first line are on the first slide, after a line that is in no section,
\* and its second line is on the second slide.
C38_Witness ==
    /\ call = "extract_pptx_content" /\ result # None
    /\ file.slides = CarriedSlides
    /\ Structural(file.slides) # <<>>
    /\ ~AcceptedUnit(PptxUnits(file.slides), 1)
    /\ AcceptedUnit(PptxUnits(file.slides), 2)
    /\ result.sections = <<[title |-> LineIntro, content |-> <<LineBody, LineBody>>]>>

====
